---- MODULE Spec2Model ----
(***************************************************************************)
(* A model of adminjs-graphql: the parameter inflate/deflate transforms of *)
(* the resource adapter and the schema-driven property walk of the         *)
(* connection.                                                             *)
(*                                                                         *)
(* JavaScript values are records of one shape, [t, v, len, ks, f]:         *)
(*   t = "s"   a primitive; v is its text ("undefined" and "null" are the  *)
(*             two nullish primitives),                                    *)
(*   t = "o"   a plain object; ks lists its own keys in insertion order    *)
(*             and f maps each key to its value,                           *)
(*   t = "a"   an array; len is its length, ks/f hold the slots that are   *)
(*             set (a hole is an index below len with no key),             *)
(*   t = "err" a thrown error; v is its name.                              *)
(* A property key is the sequence of its dot-separated segments, so that   *)
(* path.split(".") is the key itself and `${key}.${subKey}` is \o; the     *)
(* segments of the model contain no dot.                                   *)
(***************************************************************************)
EXTENDS Integers, Sequences, FiniteSets, TLC

VARIABLES
    params, idField, pstage, presult,   \* the parameter transforms
    resources,      \* GraphQLConnection.resources
    pc,             \* where inflateResources stands
    cur,            \* the resource being inflated
    cursor, phase,  \* the field visit() stands at, entering or leaving
    path, objectStack, propertyMap,     \* the locals of the walk
    error,          \* the message of the error thrown, "" if none
    onError,        \* whether the connection was given an error observer
    decorated,      \* whether the admin panel has decorated the adapter
    requests,       \* the requests handed to the transport, oldest first
    observed,       \* the errors the observer was called with, oldest first
    call,           \* the adapter or connection call in progress
    outcome         \* what the caller of the last call got

paramVars == <<params, idField, pstage, presult>>
walkVars == <<resources, pc, cur, cursor, phase, path, objectStack, propertyMap, error>>
adapterVars == <<onError, decorated, requests, observed, call, outcome>>
vars == <<paramVars, walkVars, adapterVars>>

(***************************************************************************)
(* Bounds of the checked inputs.                                           *)
(***************************************************************************)
MaxIndex == 2
MaxKeys == 2
MaxDepth == 3
MaxSel == 3
MaxFilter == 2
MaxResources == 2
MaxWrappers == 6
MaxCalls == 2

(***************************************************************************)
(* JavaScript values.                                                      *)
(***************************************************************************)
NoProps == [k \in {} |-> TRUE]

Prim(text) == [t |-> "s", v |-> text, len |-> 0, ks |-> <<>>, f |-> NoProps]
\* a number, told from the string of the same text
Num(text) == [t |-> "n", v |-> text, len |-> 0, ks |-> <<>>, f |-> NoProps]
Undefined == Prim("undefined")
Null == Prim("null")
EmptyObject == [t |-> "o", v |-> "", len |-> 0, ks |-> <<>>, f |-> NoProps]
EmptyArray == [t |-> "a", v |-> "", len |-> 0, ks |-> <<>>, f |-> NoProps]
Thrown(name) == [t |-> "err", v |-> name, len |-> 0, ks |-> <<>>, f |-> NoProps]

IsError(x) == x.t = "err"

\* typeof x === "object" && x !== null
IsObjectLike(x) == x.t \in {"o", "a"}

\* the values the || of line 409 lets through
Falsy == {"undefined", "null", "", "0", "false", "NaN"}
Truthy(x) == IsObjectLike(x) \/ (x.t \in {"s", "n"} /\ x.v \notin Falsy)

\* String(n) for the array indices of the model, and parseInt as its inverse
IndexStr == <<"0", "1", "2", "3", "4", "5", "6", "7">>
NameOrder == <<"a", "b", "c", "ID">>

NoIndex == [nan |-> FALSE, n |-> -1]
NaN == [nan |-> TRUE, n |-> 0]
parseInt(seg) ==
    IF \E i \in DOMAIN IndexStr : IndexStr[i] = seg
    THEN [nan |-> FALSE, n |-> (CHOOSE i \in DOMAIN IndexStr : IndexStr[i] = seg) - 1]
    ELSE NaN

IsIndexKey(key) == Len(key) = 1 /\ ~parseInt(key[1]).nan

HasProp(object, key) == key \in DOMAIN object.f
GetProp(object, key) == IF HasProp(object, key) THEN object.f[key] ELSE Undefined

\* object[key] = value: a new key goes last; an index at or past an array's
\* length grows the array
SetProp(object, key, value) ==
    [object EXCEPT
        !.ks = IF HasProp(object, key) THEN @ ELSE Append(@, key),
        !.f = [k \in DOMAIN @ \cup {key} |-> IF k = key THEN value ELSE @[k]],
        !.len = IF object.t = "a" /\ IsIndexKey(key) /\ parseInt(key[1]).n >= @
                THEN parseInt(key[1]).n + 1 ELSE @]

\* array.length = n: the slots at n and above are deleted
SetLength(array, n) ==
    LET keep(k) == ~IsIndexKey(k) \/ parseInt(k[1]).n < n
    IN [array EXCEPT
          !.len = n,
          !.ks = SelectSeq(@, keep),
          !.f = [k \in {x \in DOMAIN @ : keep(x)} |-> @[k]]]

\* Object.keys: the index keys in ascending order, then the others in
\* insertion order
ObjectKeys(object) ==
    LET own(seg) == <<seg>> \in DOMAIN object.f
        idx == SelectSeq(IndexStr, own)
        notIndex(k) == ~IsIndexKey(k)
    IN [i \in 1..Len(idx) |-> <<idx[i]>>] \o SelectSeq(object.ks, notIndex)

\* deep equality that ignores key order (jest's toEqual on these values)
RECURSIVE Canon(_)
Canon(x) ==
    [t |-> x.t, v |-> x.v, len |-> x.len,
     f |-> [k \in DOMAIN x.f |-> Canon(x.f[k])]]
DeepEqual(x, y) == Canon(x) = Canon(y)

(***************************************************************************)
(* inflateParams                                                           *)
(***************************************************************************)
\* lines 401-408: the container created for a missing step is an array when
\* the following step parses as a number
NextObjectNeverArray(index) == EmptyObject
NextObject(index) == IF ~index.nan THEN EmptyArray ELSE EmptyObject

\* lines 399-418 for one path: the while loop that walks and creates the
\* containers, then the assignment of the value
RECURSIVE InflateSteps(_, _, _, _)
InflateSteps(object, steps, index, value) ==
    IF Len(steps) > 1
    THEN LET step == <<Head(steps)>>
             rest == Tail(steps)
             idx == parseInt(rest[1])
             nextObject == NextObject(idx)
             child == IF Truthy(GetProp(object, step))
                      THEN GetProp(object, step) ELSE nextObject
         IN IF ~IsObjectLike(child)
            THEN Thrown("TypeError")
            ELSE LET sub == InflateSteps(child, rest, idx, value)
                 IN IF IsError(sub) THEN sub ELSE SetProp(object, step, sub)
    ELSE IF object.t = "a"
         THEN IF index.nan
              THEN Thrown("RangeError")
              ELSE SetProp(SetLength(object, index.n + 1),
                           <<IndexStr[index.n + 1]>>, value)
         ELSE SetProp(object, steps, value)

RECURSIVE InflateFrom(_, _, _, _)
InflateFrom(record, from, keys, i) ==
    IF i > Len(keys) THEN record
    ELSE LET r == InflateSteps(record, keys[i], NoIndex, from.f[keys[i]])
         IN IF IsError(r) THEN r ELSE InflateFrom(r, from, keys, i + 1)

inflateParams(from) == InflateFrom(EmptyObject, from, ObjectKeys(from), 1)

(***************************************************************************)
(* deflateParams                                                           *)
(***************************************************************************)
DefaultIDField == "ID"

\* line 445: `${key}.${subKey}`
SubKeyUnprefixed(key, subKey) == subKey
SubKey(key, subKey) == key \o subKey

RECURSIVE AddSubKeys(_, _, _, _, _)
AddSubKeys(record, key, deflated, subKeys, i) ==
    IF i > Len(subKeys) THEN record
    ELSE AddSubKeys(SetProp(record, SubKey(key, subKeys[i]), deflated.f[subKeys[i]]),
                    key, deflated, subKeys, i + 1)

RECURSIVE deflateParams(_, _)
RECURSIVE DeflateKeys(_, _, _, _, _)
DeflateKeys(typed, keys, i, record, IDField) ==
    IF i > Len(keys) THEN record
    ELSE LET key == keys[i]
             param == typed.f[key]
         IN IF IsObjectLike(param)
            THEN LET deflated == deflateParams(param, DefaultIDField)
                     deflatedKeys == ObjectKeys(deflated)
                 IN IF Len(deflatedKeys) = 1 /\ HasProp(deflated, <<IDField>>)
                    THEN DeflateKeys(typed, keys, i + 1,
                             SetProp(record, key, deflated.f[deflatedKeys[1]]),
                             IDField)
                    ELSE DeflateKeys(typed, keys, i + 1,
                             AddSubKeys(record, key, deflated, deflatedKeys, 1),
                             IDField)
            ELSE DeflateKeys(typed, keys, i + 1, SetProp(record, key, param), IDField)

deflateParams(from, IDField) ==
    IF ~IsObjectLike(from) THEN from
    ELSE DeflateKeys(from, ObjectKeys(from), 1, EmptyObject, IDField)

(***************************************************************************)
(* The inputs of the parameter transforms.                                 *)
(***************************************************************************)
Range(seq) == {seq[i] : i \in DOMAIN seq}

\* a dense array of the given elements
RECURSIVE ArrayFrom(_, _, _)
ArrayFrom(array, elems, i) ==
    IF i > Len(elems) THEN array
    ELSE ArrayFrom(SetProp(array, <<IndexStr[i]>>, elems[i]), elems, i + 1)
ArrayOf(elems) == ArrayFrom(EmptyArray, elems, 1)

Digits == {IndexStr[i + 1] : i \in 0..MaxIndex}
InnerSegs == {"b", "ID"} \cup Digits

\* flat keys: "a", "b", "a.s" and "a.s.s2"
FlatKeys ==
    {<<"a">>, <<"b">>}
        \cup {<<"a", s>> : s \in InnerSegs}
        \cup {<<"a", s1, s2>> : s1 \in InnerSegs, s2 \in InnerSegs}

FlatValues == <<"p", "q", "r", "s", "u">>

KeyLists(n) ==
    {ks \in UNION {[1..m -> FlatKeys] : m \in 0..n} :
        \A i, j \in DOMAIN ks : i # j => ks[i] # ks[j]}

\* flat records of at most MaxKeys keys in every key order; the i-th key
\* listed holds the i-th value
FlatInputs ==
    {[t |-> "o", v |-> "", len |-> 0, ks |-> keys,
      f |-> [k \in Range(keys) |->
                Prim(FlatValues[CHOOSE i \in DOMAIN keys : keys[i] = k])]] :
        keys \in KeyLists(MaxKeys)}

Leaves == {Prim("x")}
SiblingLeaf == Prim("y")
NestedKeys == {"a", "b", "ID"}
IDFields == {"ID", "b"}

InOrder(keySet) == SelectSeq(NameOrder, LAMBDA n : n \in keySet)

\* objects of at most two fields over the values C, the second field the
\* leaf "y"; the keys are inserted in the order of NameOrder
ObjectsOver(C) ==
    {EmptyObject}
        \cup {SetProp(EmptyObject, <<k>>, c) : k \in NestedKeys, c \in C}
        \cup {LET first == InOrder({p[1], p[2]})[1]
                  second == InOrder({p[1], p[2]})[2]
                  val(k) == IF k = p[1] THEN c ELSE SiblingLeaf
              IN SetProp(SetProp(EmptyObject, <<first>>, val(first)),
                         <<second>>, val(second)) :
                p \in {q \in NestedKeys \X NestedKeys : q[1] # q[2]},
                c \in C}

\* dense arrays of at most two elements over the values C, the first of two
\* the leaf "y"
ArraysOver(C) ==
    {EmptyArray}
        \cup {ArrayOf(<<c>>) : c \in C}
        \cup {ArrayOf(<<SiblingLeaf, c>>) : c \in C}

\* the values nested at most d containers deep
RECURSIVE Nested(_)
Nested(d) ==
    IF d = 0 THEN Leaves
    ELSE LET C == Nested(d - 1) IN Leaves \cup ObjectsOver(C) \cup ArraysOver(C)

\* what deflateParams is called with: records, and the non-objects of the tests
NestedInputs ==
    ObjectsOver(Nested(MaxDepth - 1))
        \cup {Prim("a string"), Prim("1"), Undefined, Null}

(***************************************************************************)
(* The transforms applied to every input: inflate then deflate of a flat   *)
(* record, deflate then inflate of a nested one.                           *)
(***************************************************************************)
\* the connection is not part of these checks
NoWalk ==
    /\ resources = <<>>
    /\ pc = "idle"
    /\ cur = 0
    /\ cursor = <<>>
    /\ phase = "enter"
    /\ path = <<>>
    /\ objectStack = <<>>
    /\ propertyMap = NoProps
    /\ error = ""

\* no call made yet
NoCall ==
    /\ onError = FALSE
    /\ decorated = FALSE
    /\ requests = <<>>
    /\ observed = <<>>
    /\ call = [op |-> "none"]
    /\ outcome = [status |-> "none"]

InflateInit ==
    /\ params \in FlatInputs
    /\ idField = DefaultIDField
    /\ pstage = "flat"
    /\ presult = Undefined
    /\ NoWalk
    /\ NoCall

Inflate ==
    /\ pstage = "flat"
    /\ presult' = inflateParams(params)
    /\ pstage' = "inflated"
    /\ UNCHANGED <<params, idField, walkVars, adapterVars>>

DeflateInflated ==
    /\ pstage = "inflated"
    /\ ~IsError(presult)
    /\ presult' = deflateParams(presult, idField)
    /\ pstage' = "inflated-deflated"
    /\ UNCHANGED <<params, idField, walkVars, adapterVars>>

InflateNext == Inflate \/ DeflateInflated
InflateSpec == InflateInit /\ [][InflateNext]_vars

DeflateInit ==
    /\ params \in NestedInputs
    /\ idField \in IDFields
    /\ pstage = "nested"
    /\ presult = Undefined
    /\ NoWalk
    /\ NoCall

Deflate ==
    /\ pstage = "nested"
    /\ presult' = deflateParams(params, idField)
    /\ pstage' = "deflated"
    /\ UNCHANGED <<params, idField, walkVars, adapterVars>>

InflateDeflated ==
    /\ pstage = "deflated"
    /\ IsObjectLike(presult)
    /\ presult' = inflateParams(presult)
    /\ pstage' = "deflated-inflated"
    /\ UNCHANGED <<params, idField, walkVars, adapterVars>>

DeflateNext == Deflate \/ InflateDeflated
DeflateSpec == DeflateInit /\ [][DeflateNext]_vars

(***************************************************************************)
(* What the claims about the transforms speak of.                          *)
(***************************************************************************)
\* the scalar leaves of a value, each with the keys and indices leading to it
RECURSIVE LeafPaths(_)
LeafPaths(x) ==
    IF ~IsObjectLike(x) THEN {[path |-> <<>>, value |-> x]}
    ELSE UNION {{[path |-> k \o lp.path, value |-> lp.value] :
                    lp \in LeafPaths(x.f[k])} : k \in DOMAIN x.f}

\* the containers strictly inside a value
RECURSIVE Containers(_)
Containers(x) ==
    IF ~IsObjectLike(x) THEN {}
    ELSE UNION {(IF IsObjectLike(x.f[k]) THEN {x.f[k]} ELSE {})
                    \cup Containers(x.f[k]) : k \in DOMAIN x.f}

\* the value reached from x along a path of keys
RECURSIVE ValueAt(_, _)
ValueAt(x, keys) ==
    IF keys = <<>> THEN x
    ELSE IF IsObjectLike(x) /\ HasProp(x, <<Head(keys)>>)
         THEN ValueAt(x.f[<<Head(keys)>>], Tail(keys))
         ELSE Undefined

IsProperPrefix(p, q) == Len(p) < Len(q) /\ SubSeq(q, 1, Len(p)) = p
Parent(key) == SubSeq(key, 1, Len(key) - 1)
Last(seq) == seq[Len(seq)]
IsDigit(seg) == ~parseInt(seg).nan

\* a flat record that some nested record of objects and arrays flattens to:
\* no key is a prefix of another, and the keys under one parent are either
\* all indices or all names
WellFormedFlat(flat) ==
    \A k1, k2 \in DOMAIN flat.f :
        /\ ~IsProperPrefix(k1, k2)
        /\ \A n \in 1..Len(k1) :
              (n <= Len(k2) /\ SubSeq(k1, 1, n - 1) = SubSeq(k2, 1, n - 1) /\ n > 1)
                  => (IsDigit(k1[n]) <=> IsDigit(k2[n]))

\* no key names an identifier field below the top level
NoIDSegment(flat) ==
    \A k \in DOMAIN flat.f : \A n \in 2..Len(k) : k[n] # DefaultIDField

\* every key is an index under one and the same parent
AllIndexed(flat) ==
    /\ DOMAIN flat.f # {}
    /\ \A k \in DOMAIN flat.f : Len(k) >= 2 /\ IsDigit(Last(k))
    /\ \A k1, k2 \in DOMAIN flat.f : Parent(k1) = Parent(k2)

SetMax(S) == CHOOSE m \in S : \A n \in S : n <= m

\* the keys are listed in ascending order of their last index
AscendingKeys(flat) ==
    \A i, j \in DOMAIN flat.ks :
        i < j => parseInt(Last(flat.ks[i])).n < parseInt(Last(flat.ks[j])).n

(***************************************************************************)
(* C1: for every flat record with no reference collapsing, whatever the    *)
(* order its keys are listed in, deflate(inflate(flat)) equals flat.       *)
(***************************************************************************)
C1_DeflateInflateIsIdentity ==
    (pstage = "inflated-deflated" /\ WellFormedFlat(params) /\ NoIDSegment(params))
        => DeepEqual(presult, params)

(***************************************************************************)
(* C3: a parent whose keys end in an index is inflated to an array of      *)
(* length (maximum index + 1) that holds every supplied value at its index *)
(* and nothing else, in whatever order the keys are processed.             *)
(***************************************************************************)
IsArrayOfIndexed(array, flat) ==
    /\ array.t = "a"
    /\ array.len = SetMax({parseInt(Last(k)).n : k \in DOMAIN flat.f}) + 1
    /\ DOMAIN array.f = {<<Last(k)>> : k \in DOMAIN flat.f}
    /\ \A k \in DOMAIN flat.f : array.f[<<Last(k)>>] = flat.f[k]

C3_ArraySizedToMaxIndex ==
    (pstage = "inflated" /\ AllIndexed(params))
        => IsArrayOfIndexed(
               ValueAt(presult, Parent(CHOOSE k \in DOMAIN params.f : TRUE)), params)

\* an object or array that deflates to the single field ID: what deflate
\* replaces by that field's value
ReducesToID(x) ==
    LET d == deflateParams(x, DefaultIDField)
    IN Len(ObjectKeys(d)) = 1 /\ HasProp(d, <<DefaultIDField>>)

NoReference(x) == \A c \in Containers(x) : ~ReducesToID(c)
NoEmptyContainer(x) == \A c \in Containers(x) : DOMAIN c.f # {}

(***************************************************************************)
(* C2: for every nested record of objects, arrays and scalar leaves with   *)
(* no object that reduces to a single identifier field,                    *)
(* inflate(deflate(record)) equals record.                                 *)
(***************************************************************************)
C2_InflateDeflateIsIdentity ==
    (pstage = "deflated-inflated" /\ idField = DefaultIDField /\ NoReference(params))
        => DeepEqual(presult, params)

\* C2 as amended: the same, for records in which no object or array is empty
\* (the records of the model have no numeric object key, no array hole and no
\* dot in a key)
C2_InflateDeflateIsIdentityNonEmpty ==
    (/\ pstage = "deflated-inflated"
     /\ idField = DefaultIDField
     /\ NoReference(params)
     /\ NoEmptyContainer(params))
        => DeepEqual(presult, params)

C2_Witness ==
    /\ pstage = "deflated-inflated"
    /\ idField = DefaultIDField
    /\ NoReference(params)
    /\ NoEmptyContainer(params)
    /\ \E c \in Containers(params) : c.t = "a" /\ c.len = 2
    /\ \E lp \in LeafPaths(params) : Len(lp.path) = MaxDepth
    /\ DeepEqual(presult, params)

(***************************************************************************)
(* C4: for every identifier field name F and at every depth, deflate       *)
(* collapses a nested object to a scalar under its parent key exactly when *)
(* it reduces to the single field F; otherwise it is flattened with a path *)
(* suffix.                                                                 *)
(***************************************************************************)
\* the flat entries the claim describes: F decides the collapse at every depth
RECURSIVE CollapsedEntries(_, _)
CollapsedEntries(x, F) ==
    UNION {
        IF ~IsObjectLike(x.f[k]) THEN {<<k, Canon(x.f[k])>>}
        ELSE LET sub == CollapsedEntries(x.f[k], F)
             IN IF Cardinality(sub) = 1 /\ \E e \in sub : e[1] = <<F>>
                THEN {<<k, e[2]>> : e \in sub}
                ELSE {<<k \o e[1], e[2]>> : e \in sub} :
        k \in DOMAIN x.f}

FlatEntries(flat) == {<<k, Canon(flat.f[k])>> : k \in DOMAIN flat.f}

C4_CollapsesOnIDFieldAtEveryDepth ==
    (pstage = "deflated" /\ IsObjectLike(params))
        => FlatEntries(presult) = CollapsedEntries(params, idField)

(***************************************************************************)
(* C5: deflate returns a non-object unchanged; of a nested record it       *)
(* returns a record with no object or array value, in which every scalar   *)
(* leaf is found under the dot-joined keys and indices that lead to it     *)
(* (a path through a collapsed identifier field aside) and every entry is  *)
(* such a leaf.                                                            *)
(***************************************************************************)
\* q is p with some of its identifier segments left out
RECURSIVE IsCollapseOf(_, _, _)
IsCollapseOf(q, p, F) ==
    IF p = <<>> THEN q = <<>>
    ELSE \/ (q # <<>> /\ Head(q) = Head(p) /\ IsCollapseOf(Tail(q), Tail(p), F))
         \/ (Head(p) \in {F, DefaultIDField} /\ IsCollapseOf(q, Tail(p), F))

C5_DeflateFlattensToLeafPaths ==
    pstage = "deflated" =>
        IF ~IsObjectLike(params) THEN presult = params
        ELSE /\ presult.t = "o"
             /\ \A k \in DOMAIN presult.f : ~IsObjectLike(presult.f[k])
             /\ \A lp \in LeafPaths(params) :
                    (\A n \in DOMAIN lp.path : lp.path[n] \notin {idField, DefaultIDField})
                        => (HasProp(presult, lp.path) /\ presult.f[lp.path] = lp.value)
             /\ \A k \in DOMAIN presult.f :
                    \E lp \in LeafPaths(params) :
                        lp.value = presult.f[k] /\ IsCollapseOf(k, lp.path, idField)

C5_Witness ==
    /\ pstage = "deflated"
    /\ IsObjectLike(params)
    /\ \E k \in DOMAIN presult.f :
          /\ Len(k) = MaxDepth
          /\ \E n \in DOMAIN k : IsDigit(k[n])
          /\ [path |-> k, value |-> presult.f[k]] \in LeafPaths(params)
    /\ Cardinality(DOMAIN presult.f) = 2

(***************************************************************************)
(* The remote schema, as buildClientSchema returns it. A declared type is  *)
(* its wrappers, outermost first, around a named type.                     *)
(***************************************************************************)
Type(wrappers, name) == [wrappers |-> wrappers, name |-> name]

TypeKind ==
    [Query |-> "OBJECT", Thing |-> "OBJECT", Person |-> "OBJECT",
     Other |-> "OBJECT", Meta |-> "OBJECT", Kind |-> "ENUM",
     ID |-> "SCALAR", String |-> "SCALAR", Int |-> "SCALAR", JSON |-> "SCALAR",
     Float |-> "SCALAR", SearchResult |-> "UNION",
     Stats |-> "OBJECT", Bool |-> "SCALAR", Date |-> "SCALAR", Boolean |-> "SCALAR"]

TypeFields ==
    [Query |->
        [thing |-> Type(<<>>, "Thing"),
         things |-> Type(<<"NonNull", "List", "NonNull">>, "Thing"),
         thingCount |-> Type(<<"NonNull">>, "Int")],
     Thing |->
        [ID |-> Type(<<"NonNull">>, "ID"),
         name |-> Type(<<"NonNull">>, "String"),
         tags |-> Type(<<"NonNull", "List", "NonNull">>, "String"),
         blob |-> Type(<<>>, "JSON"),
         owner |-> Type(<<>>, "Person"),
         others |-> Type(<<"List", "NonNull">>, "Other"),
         meta |-> Type(<<>>, "Meta"),
         stats |-> Type(<<>>, "Stats")],
     Stats |->
        [count |-> Type(<<"NonNull">>, "Int"),
         price |-> Type(<<>>, "Float"),
         flag |-> Type(<<>>, "Bool"),
         since |-> Type(<<>>, "Date"),
         real |-> Type(<<"NonNull">>, "Boolean")],
     Person |->
        [ID |-> Type(<<"NonNull">>, "ID"),
         name |-> Type(<<>>, "String")],
     Other |->
        [ID |-> Type(<<"NonNull">>, "ID"),
         owner |-> Type(<<"NonNull">>, "Person")],
     Meta |->
        [kind |-> Type(<<"NonNull">>, "Kind"),
         owner |-> Type(<<>>, "Person")]]

\* the order the fields are declared in
FieldOrder ==
    [Thing |-> <<"ID", "name", "tags", "blob", "owner", "others", "meta">>,
     Person |-> <<"ID", "name">>,
     Other |-> <<"ID", "owner">>,
     Meta |-> <<"kind", "owner">>]

EnumValues == [Kind |-> <<"BIG", "SMALL">>]

NoType == Type(<<>>, "")
IsObjectType(name) == name \in DOMAIN TypeKind /\ TypeKind[name] = "OBJECT"
IsEnumType(name) == name \in DOMAIN TypeKind /\ TypeKind[name] = "ENUM"
HasField(typeName, fieldName) ==
    typeName \in DOMAIN TypeFields /\ fieldName \in DOMAIN TypeFields[typeName]

(***************************************************************************)
(* Sample documents. A field node is [name, hasSel, sel]: hasSel says      *)
(* whether it has a selection set, sel lists the fields selected. A        *)
(* document lists its operations, each the list of its top-level fields.   *)
(* The documents have no fragment, so that expandFragments leaves them as  *)
(* they are.                                                               *)
(***************************************************************************)
Leaf(name) == [name |-> name, hasSel |-> FALSE, sel |-> <<>>]
Field(name, sel) == [name |-> name, hasSel |-> TRUE, sel |-> sel]
Document(ops) == [ops |-> ops]

\* the selections of at most n fields of a type, in declared order, every
\* object field with a selection of its own
RECURSIVE Selections(_, _, _)
Selections(typeName, fields, n) ==
    IF fields = <<>> \/ n = 0 THEN {<<>>}
    ELSE LET name == Head(fields)
             named == TypeFields[typeName][name].name
             nodes == IF IsObjectType(named)
                      THEN {Field(name, sel) :
                              sel \in Selections(named, FieldOrder[named], MaxSel) \ {<<>>}}
                      ELSE {Leaf(name)}
         IN Selections(typeName, Tail(fields), n)
              \cup {<<node>> \o rest :
                      node \in nodes, rest \in Selections(typeName, Tail(fields), n - 1)}

ThingSelections == Selections("Thing", FieldOrder["Thing"], MaxSel) \ {<<>>}

WellFormedDocuments == {Document(<<<<Field("thing", sel)>>>>) : sel \in ThingSelections}

\* documents that are not of the one-operation, one-field shape, or do not
\* match the schema
OtherDocuments ==
    {Document(<<>>),
     Document(<<<<>>>>),
     Document(<<<<Leaf("thingCount")>>>>),
     Document(<<<<Field("thing", <<Leaf("ID")>>), Field("things", <<Leaf("ID")>>)>>>>),
     Document(<<<<Field("thing", <<Leaf("ID")>>)>>, <<Field("things", <<Leaf("name")>>)>>>>),
     Document(<<<<Field("thing", <<Leaf("ID"), Leaf("bogus")>>)>>>>),
     Document(<<<<Field("thing", <<Leaf("name"), Field("owner", <<Leaf("bogus")>>)>>)>>>>)}

\* documents over the fields of the scalar types the kinds are mapped from
StatsDocuments ==
    {Document(<<<<Field("thing", <<Leaf("name"),
            Field("stats", <<Leaf("count"), Leaf("price"), Leaf("flag"),
                             Leaf("since"), Leaf("real")>>)>>)>>>>),
     Document(<<<<Field("thing", <<Field("stats", <<Leaf("real")>>)>>)>>>>)}

Documents == WellFormedDocuments \cup OtherDocuments \cup StatsDocuments

(***************************************************************************)
(* Resources. An optional member is [def, val].                            *)
(***************************************************************************)
Unset == [def |-> FALSE, val |-> <<>>]
Set(val) == [def |-> TRUE, val |-> val]

SortableFieldsChoices == {Unset, Set(<<<<"name">>, <<"owner">>, <<"meta", "owner">>>>)}
ReferenceFieldsChoices ==
    {Unset, Set([p \in {<<"name">>, <<"meta", "kind">>} |->
                    IF p = <<"name">> THEN "Person" ELSE "Other"])}

\* src/GraphQLResource.ts line 26 (fieldTypes) and src/AdminBroGraphQL.ts
\* line 245 (fieldTypeOverrides): a kind given for a path. The resource of
\* part_010 lines 52-92 declares no such member; one supplied is carried by
\* the object all the same.
FieldTypesChoices == {Unset, Set([p \in {<<"name">>} |-> "richtext"])}

GraphQLResource(sortable, references, overrides, subs, document) ==
    [id |-> "Thing",
     sortableFields |-> sortable,
     referenceFields |-> references,
     fieldTypes |-> overrides,
     makeSubproperties |-> subs,
     findOne |-> document,
     typeMap |-> Unset,
     connection |-> Unset,
     tag |-> Unset,
     properties |-> Unset]

\* every choice of the options of part_010, and the resources that give a
\* kind for a path beside them
Resources ==
    {GraphQLResource(sortable, references, Unset, subs, document) :
        sortable \in SortableFieldsChoices,
        references \in ReferenceFieldsChoices,
        subs \in BOOLEAN,
        document \in Documents}
    \cup
    {GraphQLResource(Unset, Unset, overrides, FALSE, document) :
        overrides \in FieldTypesChoices,
        document \in Documents}

(***************************************************************************)
(* TypeInfo: the parent type and the declared type of the field visit()    *)
(* stands at, found from the query type down the fields above it.          *)
(***************************************************************************)
RECURSIVE NodeAt(_, _)
NodeAt(selections, at) ==
    IF Len(at) = 1 THEN selections[at[1]]
    ELSE NodeAt(selections[at[1]].sel, Tail(at))

RECURSIVE TypeInfoAt(_, _, _)
TypeInfoAt(parentType, selections, at) ==
    LET node == selections[at[1]]
        type == IF HasField(parentType, node.name)
                THEN TypeFields[parentType][node.name] ELSE NoType
    IN IF Len(at) = 1 THEN [parentType |-> parentType, type |-> type]
       ELSE TypeInfoAt(IF IsObjectType(type.name) THEN type.name ELSE "",
                       node.sel, Tail(at))

Operation == resources[cur].findOne.ops[1]
CurrentField == NodeAt(Operation, cursor)
CurrentTypeInfo == TypeInfoAt("Query", Operation, cursor)

(***************************************************************************)
(* GraphQLConnection.inflateResources                                      *)
(***************************************************************************)
graphQLTypeToPropertyTypeNoID(name) ==
    CASE name = "String" -> "string"
      [] name = "Float" -> "float"
      [] name = "Int" -> "number"
      [] name = "Bool" -> "boolean"
      [] name = "Date" -> "datetime"
      [] OTHER -> "mixed"

graphQLTypeToPropertyType(name) ==
    CASE name \in {"String", "ID"} -> "string"
      [] name = "Float" -> "float"
      [] name = "Int" -> "number"
      [] name = "Bool" -> "boolean"
      [] name = "Date" -> "datetime"
      [] OTHER -> "mixed"

\* lines 173-178: a non-null wrapper sets isRequired unless a list wrapper was
\* unwrapped before it
SetsRequiredNever(wrapper, isArray) == FALSE
SetsRequired(wrapper, isArray) == wrapper = "NonNull" /\ ~isArray

\* line 171: graphQLType instanceof GraphQLList
IsListWrapperNever(wrapper) == FALSE
IsListWrapper(wrapper) == wrapper = "List"

\* lines 167-181: the unwrapping loop
RECURSIVE Unwrap(_, _, _)
Unwrap(wrappers, isArray, isRequired) ==
    IF wrappers = <<>> THEN [isArray |-> isArray, isRequired |-> isRequired]
    ELSE IF IsListWrapper(Head(wrappers)) THEN Unwrap(Tail(wrappers), TRUE, isRequired)
    ELSE IF SetsRequired(Head(wrappers), isArray) THEN Unwrap(Tail(wrappers), isArray, TRUE)
    ELSE Unwrap(Tail(wrappers), isArray, isRequired)

\* typeIsID: the named type under the wrappers is the ID scalar
typeIsID(type) == type.name = "ID"

\* new GraphQLPropertyAdapter(...)
GraphQLPropertyAdapter(attrs) ==
    [path |-> attrs.path,
     type |-> attrs.type,
     isId |-> attrs.isId,
     isSortable |-> attrs.isSortable,
     referencing |-> attrs.referencing,
     enumValues |-> attrs.enumValues,
     isArray |-> attrs.isArray,
     isRequired |-> attrs.isRequired,
     subProperties |-> <<>>]

\* lines 199-222: the kind and target inferred from an object type selected
\* by its identifier alone; kind "throw" when the selected field is not in
\* the type
InferReference(field, namedType) ==
    IF IsObjectType(namedType) /\ Len(field.sel) = 1
    THEN IF ~HasField(namedType, field.sel[1].name)
         THEN [type |-> "throw", referencing |-> Unset]
         ELSE IF typeIsID(TypeFields[namedType][field.sel[1].name])
              THEN [type |-> "reference", referencing |-> Set(namedType)]
              ELSE [type |-> "", referencing |-> Unset]
    ELSE [type |-> "", referencing |-> Unset]

\* lines 224-233
PropertyTypeOfEnumFirst(resource, propertyPath, enumValues, namedType) ==
    IF enumValues.def /\ Len(enumValues.val) > 0 THEN "string"
    ELSE IF resource.referenceFields.def /\ propertyPath \in DOMAIN resource.referenceFields.val
    THEN "reference"
    ELSE graphQLTypeToPropertyType(namedType)
PropertyTypeOf(resource, propertyPath, enumValues, namedType) ==
    IF resource.referenceFields.def /\ propertyPath \in DOMAIN resource.referenceFields.val
    THEN "reference"
    ELSE IF enumValues.def /\ Len(enumValues.val) > 0 THEN "string"
    ELSE graphQLTypeToPropertyType(namedType)

\* lines 235-239
IsSortableByDefault(resource, propertyPath, propertyType) ==
    IF resource.sortableFields.def
    THEN \E n \in DOMAIN resource.sortableFields.val :
            resource.sortableFields.val[n] = propertyPath
    ELSE TRUE
IsSortable(resource, propertyPath, propertyType) ==
    IF resource.sortableFields.def
    THEN \E n \in DOMAIN resource.sortableFields.val :
            resource.sortableFields.val[n] = propertyPath
    ELSE propertyType # "reference"

\* lines 243-248
UseFullPath(resource, parentPath) ==
    /\ ~resource.makeSubproperties
    /\ ~(/\ parentPath \in DOMAIN propertyMap
         /\ propertyMap[parentPath].type = "mixed"
         /\ propertyMap[parentPath].isArray)

\* lines 160-267: the property a field is entered with
PropertyOf(resource, field, type) ==
    LET unwrapped == Unwrap(type.wrappers, FALSE, FALSE)
        namedType == type.name
        enumValues == IF IsEnumType(namedType) THEN Set(EnumValues[namedType]) ELSE Unset
        propertyPath == Append(path, field.name)
        inferred == InferReference(field, namedType)
        propertyType == IF inferred.type # "" THEN inferred.type
                        ELSE PropertyTypeOf(resource, propertyPath, enumValues, namedType)
    IN GraphQLPropertyAdapter(
        [path |-> IF UseFullPath(resource, path) THEN propertyPath ELSE <<field.name>>,
         type |-> propertyType,
         isId |-> namedType = "ID" /\ propertyType # "reference",
         isSortable |-> IsSortable(resource, propertyPath, propertyType),
         referencing |->
            IF inferred.referencing.def THEN inferred.referencing
            ELSE IF resource.referenceFields.def
                    /\ propertyPath \in DOMAIN resource.referenceFields.val
                 THEN Set(resource.referenceFields.val[propertyPath])
                 ELSE Unset,
         enumValues |-> enumValues,
         isArray |-> unwrapped.isArray,
         isRequired |-> unwrapped.isRequired])

IsRootType(name) == name \in {"Query", "Mutation"}

\* line 135: the operation selects exactly one top-level field
SingleTopLevelOrMore(toplevelSelections) == Len(toplevelSelections) >= 1
SingleTopLevel(toplevelSelections) == Len(toplevelSelections) = 1

Fail(message) ==
    /\ pc' = "failed"
    /\ error' = message

\* lines 110-144: the resource is tagged, its document checked, and the walk
\* set up at the operation's only field
StartResource ==
    /\ pc = "start"
    /\ LET document == resources[cur].findOne
       IN /\ resources' = [resources EXCEPT
                ![cur].typeMap = Set(NoProps),
                ![cur].connection = Set("this"),
                ![cur].tag = Set("GraphQLResource")]
          /\ IF Len(document.ops) = 0
             THEN /\ Fail("Document without operation is not allowed")
                  /\ UNCHANGED <<cursor, phase, path, objectStack, propertyMap>>
             ELSE IF ~SingleTopLevel(document.ops[1])
             THEN /\ Fail("Top level selections must contain exactly one field")
                  /\ UNCHANGED <<cursor, phase, path, objectStack, propertyMap>>
             ELSE /\ pc' = "visit"
                  /\ cursor' = <<1>>
                  /\ phase' = "enter"
                  /\ path' = <<>>
                  /\ objectStack' = <<<<>>>>
                  /\ propertyMap' = NoProps
                  /\ error' = ""
    /\ UNCHANGED <<cur, paramVars, adapterVars>>

\* visit() goes on after the enter handler: into the selection set, or to
\* the leave of a field that has none
Descend(field) ==
    IF field.hasSel
    THEN cursor' = Append(cursor, 1) /\ phase' = "enter"
    ELSE cursor' = cursor /\ phase' = "leave"

\* line 273: resource.typeMap?.set(propertyPath, namedType)
TypeMapSetUnlessMixed(typeMap, propertyPath, namedType) ==
    IF graphQLTypeToPropertyType(namedType) = "mixed" THEN typeMap
    ELSE [p \in DOMAIN typeMap \cup {propertyPath} |->
            IF p = propertyPath THEN namedType ELSE typeMap[p]]
TypeMapSet(typeMap, propertyPath, namedType) ==
    [p \in DOMAIN typeMap \cup {propertyPath} |->
        IF p = propertyPath THEN namedType ELSE typeMap[p]]

\* lines 150-279: Field.enter
FieldEnter ==
    /\ pc = "visit"
    /\ phase = "enter"
    /\ LET field == CurrentField
           info == CurrentTypeInfo
           resource == resources[cur]
       IN IF IsRootType(info.parentType)
          THEN /\ Descend(field)
               /\ UNCHANGED <<resources, pc, path, objectStack, propertyMap, error>>
          ELSE IF info.type = NoType
          THEN /\ Fail("Unexpected empty type for field")
               /\ UNCHANGED <<resources, cursor, phase, path, objectStack, propertyMap>>
          ELSE IF InferReference(field, info.type.name).type = "throw"
          THEN /\ Fail("Field is not in type")
               /\ UNCHANGED <<resources, cursor, phase, path, objectStack, propertyMap>>
          ELSE LET property == PropertyOf(resource, field, info.type)
                   propertyPath == Append(path, field.name)
                   top == Len(objectStack)
                   pushed == [objectStack EXCEPT ![top] = Append(@, property)]
               IN /\ propertyMap' =
                        [p \in DOMAIN propertyMap \cup {propertyPath} |->
                            IF p = propertyPath THEN property ELSE propertyMap[p]]
                  /\ resources' = [resources EXCEPT ![cur].typeMap.val =
                        TypeMapSet(@, propertyPath, info.type.name)]
                  /\ IF field.hasSel
                     THEN /\ path' = Append(path, field.name)
                          /\ objectStack' = Append(pushed, <<>>)
                     ELSE /\ path' = path
                          /\ objectStack' = pushed
                  /\ Descend(field)
                  /\ UNCHANGED <<pc, error>>
    /\ UNCHANGED <<cur, paramVars, adapterVars>>

\* visit() goes on after the leave handler: to the next field of the
\* selection set, else to the leave of the field above, else it returns
Ascend ==
    LET siblings == IF Len(cursor) = 1 THEN Operation
                    ELSE NodeAt(Operation, Parent(cursor)).sel
    IN IF Last(cursor) < Len(siblings)
       THEN /\ cursor' = Append(Parent(cursor), Last(cursor) + 1)
            /\ phase' = "enter"
            /\ pc' = pc
       ELSE IF Len(cursor) > 1
       THEN /\ cursor' = Parent(cursor)
            /\ phase' = "leave"
            /\ pc' = pc
       ELSE /\ cursor' = cursor
            /\ phase' = phase
            /\ pc' = "visited"

AttachChildrenAttaching(resource, lastObject, currentObject) ==
    LET last == Len(lastObject)
    IN IF last > 0 THEN [lastObject EXCEPT ![last].subProperties = currentObject]
       ELSE lastObject

\* lines 302-316: the children of a field left are attached to its property,
\* appended to the list the property is in, or dropped
AttachChildren(resource, lastObject, currentObject) ==
    LET last == Len(lastObject)
    IN IF last > 0 /\ ((lastObject[last].type = "mixed" /\ lastObject[last].isArray)
                          \/ resource.makeSubproperties)
       THEN [lastObject EXCEPT ![last].subProperties = currentObject]
       ELSE IF Len(currentObject) # 1 \/ ~currentObject[1].isId
       THEN lastObject \o currentObject
       ELSE lastObject

\* lines 291, 324: objectStack.pop() takes the last list off the stack
PoppedNever(stack) == stack
Popped(stack) == SubSeq(stack, 1, Len(stack) - 1)

\* lines 280-318: Field.leave
FieldLeave ==
    /\ pc = "visit"
    /\ phase = "leave"
    /\ LET field == CurrentField
           info == CurrentTypeInfo
       IN IF IsRootType(info.parentType) \/ ~field.hasSel
          THEN UNCHANGED <<path, objectStack>>
          ELSE LET top == Len(objectStack)
                   currentObject == objectStack[top]
                   lastObject == objectStack[top - 1]
               IN /\ path' = Parent(path)
                  /\ objectStack' =
                        [Popped(objectStack) EXCEPT ![top - 1] =
                            AttachChildren(resources[cur], lastObject, currentObject)]
    /\ Ascend
    /\ UNCHANGED <<resources, cur, propertyMap, error, paramVars, adapterVars>>

\* lines 323-329: the root list, without the childless properties of
\* opaque kind, becomes the resource's properties
KeepProperty(prop) == prop.type # "mixed" \/ Len(prop.subProperties) > 0

FinishResource ==
    /\ pc = "visited"
    /\ resources' = [resources EXCEPT ![cur].properties =
            Set(SelectSeq(objectStack[Len(objectStack)], KeepProperty))]
    /\ objectStack' = Popped(objectStack)
    /\ pc' = "done"
    /\ UNCHANGED <<cur, cursor, phase, path, propertyMap, error, paramVars, adapterVars>>

Init ==
    /\ resources \in {<<resource>> : resource \in Resources}
    /\ pc = "start"
    /\ cur = 1
    /\ cursor = <<>>
    /\ phase = "enter"
    /\ path = <<>>
    /\ objectStack = <<>>
    /\ propertyMap = NoProps
    /\ error = ""
    /\ params = Undefined
    /\ idField = DefaultIDField
    /\ pstage = "none"
    /\ presult = Undefined
    /\ NoCall

Next == StartResource \/ FieldEnter \/ FieldLeave \/ FinishResource
Spec == Init /\ [][Next]_vars

(***************************************************************************)
(* The scalar types' serialize, as graphql-js defines it for the built-in  *)
(* scalars; a scalar built from the introspection result serializes a      *)
(* value to itself.                                                        *)
(***************************************************************************)
IntegerTexts == {"5", "7"}
FloatTexts == IntegerTexts \cup {"1.5"}
IsNullish(value) == value \in {Undefined, Null}
IsString(value) == value.t = "s" /\ ~IsNullish(value)
GraphQLError == Thrown("GraphQLError")

serializeInt(value) ==
    IF value.t = "n" /\ value.v \in IntegerTexts THEN value
    ELSE IF IsString(value) /\ value.v \in IntegerTexts THEN Num(value.v)
    ELSE GraphQLError

serializeFloat(value) ==
    IF value.t = "n" /\ value.v \in FloatTexts THEN value
    ELSE IF IsString(value) /\ value.v \in FloatTexts THEN Num(value.v)
    ELSE GraphQLError

serializeString(value) ==
    IF IsString(value) THEN value
    ELSE IF value.t = "n" /\ value.v \in FloatTexts THEN Prim(value.v)
    ELSE GraphQLError

serializeID(value) ==
    IF IsString(value) THEN value
    ELSE IF value.t = "n" /\ value.v \in IntegerTexts THEN Prim(value.v)
    ELSE GraphQLError

serialize(typeName, value) ==
    CASE typeName = "Int" -> serializeInt(value)
      [] typeName = "Float" -> serializeFloat(value)
      [] typeName = "String" -> serializeString(value)
      [] typeName = "ID" -> serializeID(value)
      [] OTHER -> value

IsScalarType(typeName) == typeName \in DOMAIN TypeKind /\ TypeKind[typeName] = "SCALAR"

\* isInputType of a named type
isInputType(typeName) ==
    typeName \in DOMAIN TypeKind /\ TypeKind[typeName] \in {"SCALAR", "ENUM", "INPUT_OBJECT"}

\* part_010 lines 466-471
convertValue(value, typeName) ==
    IF IsScalarType(typeName) THEN serialize(typeName, value) ELSE value

(***************************************************************************)
(* GraphQLResourceAdapter.mapFilter. A filter element is [path, property,  *)
(* value]; its value is a string or a range [from, to]. The result is the  *)
(* list of field filters mapped, the error thrown if any, and the errors   *)
(* mapFilter itself handed to reportAndThrow.                              *)
(***************************************************************************)
FromTo(from, to) == [t |-> "range", from |-> from, to |-> to]
NoError == Thrown("")
FieldFilter(field, is, to) == [field |-> field, is |-> is, to |-> to]

\* lines 338-343
FromOf(element) == IF element.value.t = "s" THEN element.value ELSE element.value.from
ToOf(element) == IF element.value.t = "s" THEN FromOf(element) ELSE element.value.to

\* lines 344-345
MatchOperationAlwaysEQ(propertyType) == "EQ"
MatchOperation(propertyType) == IF propertyType = "string" THEN "MATCH" ELSE "EQ"

\* lines 347-350: the type of the path, the identifier type for an object
\* type, "" when the map has no entry
FilterType(resource, elementPath) ==
    IF resource.typeMap.def /\ elementPath \in DOMAIN resource.typeMap.val
    THEN IF IsObjectType(resource.typeMap.val[elementPath]) THEN "ID"
         ELSE resource.typeMap.val[elementPath]
    ELSE ""

\* line 352
ValidFilterTypeIfPresent(graphQLType) == graphQLType # ""
ValidFilterType(graphQLType) == graphQLType # "" /\ isInputType(graphQLType)

\* != "" on a string or undefined
LooselyEmpty(value) == value = Prim("")

\* lines 363-384: the field filters pushed for one element
Pushed(element, from, to, coercedFrom, coercedTo) ==
    IF from = to
    THEN <<FieldFilter(element.property.path, MatchOperation(element.property.type),
                       coercedFrom)>>
    ELSE (IF from # Undefined /\ ~LooselyEmpty(from)
          THEN <<FieldFilter(element.property.path, "GTE", coercedFrom)>> ELSE <<>>)
         \o
         (IF to # Undefined /\ ~LooselyEmpty(to)
          THEN <<FieldFilter(element.property.path, "LTE", coercedTo)>> ELSE <<>>)

InvalidTypeError == Thrown("Cannot get valid GraphQL type")

RECURSIVE MapFrom(_, _, _, _)
MapFrom(resource, filter, i, mapped) ==
    IF i > Len(filter) THEN [mapped |-> mapped, error |-> NoError, reported |-> <<>>]
    ELSE LET element == filter[i]
             from == FromOf(element)
             to == ToOf(element)
             graphQLType == FilterType(resource, element.path)
             coercedFrom == convertValue(from, graphQLType)
             coercedTo == convertValue(to, graphQLType)
         IN IF ~ValidFilterType(graphQLType)
            THEN [mapped |-> <<>>, error |-> InvalidTypeError,
                  reported |-> <<InvalidTypeError>>]
            ELSE IF IsError(coercedFrom)
            THEN [mapped |-> <<>>, error |-> coercedFrom, reported |-> <<>>]
            ELSE IF IsError(coercedTo)
            THEN [mapped |-> <<>>, error |-> coercedTo, reported |-> <<>>]
            ELSE MapFrom(resource, filter, i + 1,
                         mapped \o Pushed(element, from, to, coercedFrom, coercedTo))

mapFilter(resource, filter) == MapFrom(resource, filter, 1, <<>>)

(***************************************************************************)
(* A resource as inflateResources leaves it, for the calls of the adapter: *)
(* the type map and the properties of the fields name: String!,            *)
(* count: Int, price: Float, kind: Kind, owner: Person and                 *)
(* found: SearchResult. The path "missing" has a property and no type.     *)
(***************************************************************************)
AdapterTypeMap ==
    <<"name">> :> "String" @@ <<"count">> :> "Int" @@ <<"price">> :> "Float"
        @@ <<"kind">> :> "Kind" @@ <<"owner">> :> "Person"
        @@ <<"found">> :> "SearchResult"

AdapterPropertyType ==
    <<"name">> :> "string" @@ <<"count">> :> "number" @@ <<"price">> :> "float"
        @@ <<"kind">> :> "string" @@ <<"owner">> :> "reference"
        @@ <<"found">> :> "mixed" @@ <<"missing">> :> "string"

AdapterProperty(propertyPath) ==
    GraphQLPropertyAdapter(
        [path |-> propertyPath,
         type |-> AdapterPropertyType[propertyPath],
         isId |-> FALSE,
         isSortable |-> AdapterPropertyType[propertyPath] # "reference",
         referencing |-> IF propertyPath = <<"owner">> THEN Set("Person") ELSE Unset,
         enumValues |-> IF propertyPath = <<"kind">> THEN Set(EnumValues["Kind"]) ELSE Unset,
         isArray |-> FALSE,
         isRequired |-> propertyPath = <<"name">>])

AdapterProperties ==
    <<AdapterProperty(<<"name">>), AdapterProperty(<<"count">>),
      AdapterProperty(<<"price">>), AdapterProperty(<<"kind">>),
      AdapterProperty(<<"owner">>)>>

\* the property of the field count: Int! of stats: Stats, as the walk
\* flattens it into the root list of a resource that keeps no
\* sub-properties, and its entry of the type map
FlattenedPath == <<"stats", "count">>
FlattenedProperty ==
    GraphQLPropertyAdapter(
        [path |-> FlattenedPath,
         type |-> "number",
         isId |-> FALSE,
         isSortable |-> TRUE,
         referencing |-> Unset,
         enumValues |-> Unset,
         isArray |-> FALSE,
         isRequired |-> TRUE])

\* create, update and delete say whether the resource supplies the builder
InflatedResource(subs, create, update, delete) ==
    [id |-> "Thing",
     sortableFields |-> Unset,
     referenceFields |-> Unset,
     makeSubproperties |-> subs,
     findOne |-> Document(<<<<Field("thing", <<Leaf("name")>>)>>>>),
     create |-> create,
     update |-> update,
     delete |-> delete,
     typeMap |-> Set(IF subs THEN AdapterTypeMap
                     ELSE AdapterTypeMap @@ FlattenedPath :> "Int"),
     connection |-> Set("this"),
     tag |-> Set("GraphQLResource"),
     properties |-> Set(IF subs THEN AdapterProperties
                        ELSE Append(AdapterProperties, FlattenedProperty))]

(***************************************************************************)
(* The filters handed to mapFilter: at most MaxFilter elements, one for a  *)
(* path at most, as the Filter of the admin panel holds them.              *)
(***************************************************************************)
FilterPaths == DOMAIN AdapterPropertyType

FilterValues ==
    {Prim("abc"), Prim("5"), Prim(""),
     FromTo(Prim("5"), Prim("7")), FromTo(Prim("5"), Prim("5")),
     FromTo(Undefined, Prim("7")), FromTo(Prim("5"), Undefined),
     FromTo(Prim(""), Prim("7")), FromTo(Undefined, Undefined)}

FilterElement(elementPath, value) ==
    [path |-> elementPath,
     property |-> AdapterProperty(elementPath),
     value |-> value]

FilterElements == {FilterElement(p, v) : p \in FilterPaths, v \in FilterValues}

RECURSIVE FiltersOf(_)
FiltersOf(n) ==
    IF n = 0 THEN {<<>>}
    ELSE FiltersOf(n - 1) \cup
         {Append(filter, element) :
            filter \in {f \in FiltersOf(n - 1) : Len(f) = n - 1},
            element \in FilterElements}

DistinctPaths(filter) ==
    \A i, j \in DOMAIN filter : i # j => filter[i].path # filter[j].path

Filters == {filter \in FiltersOf(MaxFilter) : DistinctPaths(filter)}

\* the connection after init() has inflated the resource
Inflated(resource) ==
    /\ resources = <<resource>>
    /\ pc = "done"
    /\ cur = 1
    /\ cursor = <<>>
    /\ phase = "leave"
    /\ path = <<>>
    /\ objectStack = <<>>
    /\ propertyMap = NoProps
    /\ error = ""

NoParams ==
    /\ params = Undefined
    /\ idField = DefaultIDField
    /\ pstage = "none"
    /\ presult = Undefined

Returned(value) == [status |-> "returned", value |-> value, error |-> NoError]
Threw(thrown) == [status |-> "threw", value |-> Undefined, error |-> thrown]

\* part_003 lines 370-376, the observer's part: the errors it has been
\* called with after reportAndThrow was called with each of reported
ReportNothing(reported) == observed
Report(reported) == IF onError THEN observed \o reported ELSE observed

FilterInit ==
    /\ Inflated(InflatedResource(FALSE, TRUE, TRUE, TRUE))
    /\ NoParams
    /\ onError = TRUE
    /\ decorated = FALSE
    /\ requests = <<>>
    /\ observed = <<>>
    /\ call \in {[op |-> "mapFilter", filter |-> filter] : filter \in Filters}
    /\ outcome = [status |-> "none"]

MapFilter ==
    /\ call.op = "mapFilter"
    /\ outcome.status = "none"
    /\ LET result == mapFilter(resources[cur], call.filter)
       IN /\ outcome' = IF IsError(result.error) /\ result.error # NoError
                        THEN Threw(result.error) ELSE Returned(result.mapped)
          /\ observed' = Report(result.reported)
    /\ UNCHANGED <<onError, decorated, requests, call, paramVars, walkVars>>

FilterNext == MapFilter
FilterSpec == FilterInit /\ [][FilterNext]_vars

(***************************************************************************)
(* GraphQLResourceAdapter: the parameters of create and update             *)
(***************************************************************************)
ValidationError == Thrown("ValidationError")
RequiredFieldError == Thrown("ValidationError: Required field")
ForbiddenError == Thrown("ForbiddenError: Resource is not editable")
NoBodyError == Thrown("Unexpected parsed query without body")
AxiosError == Thrown("AxiosError")

\* this.propertyMap.get(key)?.isRequired()
IsRequiredProperty(resource, key) ==
    /\ resource.properties.def
    /\ \E n \in DOMAIN resource.properties.val :
            resource.properties.val[n].path = key /\ resource.properties.val[n].isRequired

\* part_010 lines 196-223
RECURSIVE ConvertFrom(_, _, _, _, _)
ConvertFrom(resource, from, keys, i, coerced) ==
    IF i > Len(keys) THEN coerced
    ELSE LET key == keys[i]
             value == from.f[key]
             type == IF resource.typeMap.def /\ key \in DOMAIN resource.typeMap.val
                     THEN resource.typeMap.val[key] ELSE ""
             converted == IF ~IsNullish(value) /\ IsScalarType(type)
                          THEN serialize(type, value) ELSE value
         IN IF ~IsError(converted)
            THEN ConvertFrom(resource, from, keys, i + 1, SetProp(coerced, key, converted))
            ELSE IF value = Prim("") /\ ~IsRequiredProperty(resource, key)
            THEN ConvertFrom(resource, from, keys, i + 1, SetProp(coerced, key, Null))
            ELSE ValidationError

convertParams(resource, from) == ConvertFrom(resource, from, ObjectKeys(from), 1, EmptyObject)

\* part_010 lines 225-262, with no editProperties option and no isRequired
\* option: the error thrown, NoError if none. An adapter the admin panel
\* has not decorated has no property to ask.
MissingValue(value) == value \in {Prim(""), Null, Undefined}

validateParams(resource, isDecorated, inflated) ==
    IF /\ isDecorated
       /\ resource.properties.def
       /\ \E n \in DOMAIN resource.properties.val :
            LET property == resource.properties.val[n]
            IN /\ ~(property.isId /\ property.type # "reference")
               /\ property.isRequired
               /\ MissingValue(GetProp(inflated, property.path))
    THEN RequiredFieldError
    ELSE NoError

\* lines 266-267, 280-281: the parameters handed to the builder, or the
\* error thrown on the way
PreparedParams(resource, isDecorated, from) ==
    LET converted == convertParams(resource, from)
        inflated == IF IsError(converted) THEN converted ELSE inflateParams(converted)
        invalid == IF IsError(inflated) THEN inflated
                   ELSE validateParams(resource, isDecorated, inflated)
    IN IF invalid # NoError THEN invalid ELSE inflated

\* the parameters create and update are called with
ParamsOf(keys, values) ==
    IF Len(keys) = 0 THEN EmptyObject
    ELSE IF Len(keys) = 1 THEN SetProp(EmptyObject, keys[1], values[1])
    ELSE SetProp(SetProp(EmptyObject, keys[1], values[1]), keys[2], values[2])

AdapterParams ==
    {ParamsOf(<<>>, <<>>),
     ParamsOf(<<<<"name">>>>, <<Prim("abc")>>),
     ParamsOf(<<<<"name">>>>, <<Prim("")>>),
     ParamsOf(<<<<"count">>>>, <<Prim("abc")>>),
     ParamsOf(<<<<"count">>>>, <<Prim("")>>),
     ParamsOf(<<<<"name">>, <<"count">>>>, <<Prim("abc"), Prim("5")>>),
     ParamsOf(<<<<"name">>, <<"owner", "ID">>>>, <<Prim("abc"), Prim("5")>>),
     ParamsOf(<<<<"name">>, <<"name", "b">>>>, <<Prim("abc"), Prim("5")>>),
     ParamsOf(<<<<"name">>, FlattenedPath>>, <<Prim("abc"), Prim("5")>>),
     ParamsOf(<<<<"name">>, FlattenedPath>>, <<Prim("abc"), Prim("")>>)}

(***************************************************************************)
(* GraphQLConnection.request and GraphQLResourceAdapter.executeMapping     *)
(***************************************************************************)
TypeError == Thrown("TypeError")

\* part_003 lines 333-338, for the error arrays of the model
formatGraphQLErrors(errors) ==
    IF errors = <<>> THEN "GraphQL request error: "
    ELSE IF errors = <<"boom">> THEN "GraphQL request error: boom"
    ELSE "GraphQL request error: boom, bang"

ErrorArrays == {<<>>, <<"boom">>, <<"boom", "bang">>}

\* what the transport gives back: a response body {data, errors}, or an
\* axios error whose response may carry a body with errors
Body(data, errors) == [kind |-> "body", data |-> data, errors |-> errors]
Rejected(errors) == [kind |-> "rejected", data |-> Undefined, errors |-> errors]

Record == SetProp(SetProp(EmptyObject, <<"name">>, Prim("abc")),
                  <<"owner">>, SetProp(EmptyObject, <<"ID">>, Prim("5")))
Data(result) == SetProp(EmptyObject, <<"result">>, result)
Datas == {Null, Data(Num("2")), Data(Record), Data(SetProp(EmptyArray, <<"0">>, Record))}

Responses ==
    {Body(data, errors) : data \in Datas,
                          errors \in {Unset} \cup {Set(e) : e \in ErrorArrays}}

Rejections == {Rejected(errors) : errors \in {Unset} \cup {Set(e) : e \in ErrorArrays}}

\* line 348: response.errors?.length
HasErrorsAndNoData(response) ==
    /\ response.errors.def
    /\ Len(response.errors.val) > 0
    /\ response.data = Null
HasErrors(response) ==
    /\ response.errors.def
    /\ Len(response.errors.val) > 0

\* part_003 lines 340-368: the value returned or the error thrown, and the
\* errors reportAndThrow was called with on the way
request(response) ==
    IF response.kind = "rejected"
    THEN LET thrown == IF response.errors.def
                       THEN Thrown(formatGraphQLErrors(response.errors.val))
                       ELSE AxiosError
         IN [value |-> Undefined, error |-> thrown, reported |-> <<thrown>>]
    ELSE IF HasErrors(response)
    THEN LET thrown == Thrown(formatGraphQLErrors(response.errors.val))
         IN [value |-> Undefined, error |-> thrown, reported |-> <<thrown, thrown>>]
    ELSE [value |-> response.data, error |-> NoError, reported |-> <<>>]

\* mapping.parseResult of the sample resource: (result) => result.result
parseResult(data) == IF IsNullish(data) THEN TypeError ELSE GetProp(data, <<"result">>)

\* part_010 lines 326-332
RECURSIVE DeflateEach(_, _, _)
DeflateEach(array, i, deflated) ==
    IF i >= array.len THEN deflated
    ELSE DeflateEach(array, i + 1,
            SetProp(deflated, <<IndexStr[i + 1]>>,
                    deflateParams(GetProp(array, <<IndexStr[i + 1]>>), DefaultIDField)))

DeflateParsed(resource, parsed) ==
    IF resource.makeSubproperties THEN parsed
    ELSE IF parsed.t = "a" THEN DeflateEach(parsed, 0, EmptyArray)
    ELSE deflateParams(parsed, DefaultIDField)

\* part_010 lines 323-333, and what count, find and findOne do with the
\* result (lines 159, 169-170, 180-183) short of wrapping it in records
AfterRequest(resource, op, data) ==
    LET parsed == parseResult(data)
        deflated == IF IsError(parsed) THEN parsed ELSE DeflateParsed(resource, parsed)
    IN IF IsError(deflated) THEN deflated
       ELSE IF op = "find" /\ deflated.t # "a" THEN TypeError
       ELSE IF op = "findOne" /\ ~Truthy(deflated) THEN Null
       ELSE deflated

(***************************************************************************)
(* The calls of the adapter, each up to its transport request or its       *)
(* failure, and the arrival of the response                                *)
(***************************************************************************)
AdapterFilters == FiltersOf(1)
RecordIDs == {Prim("42"), SetProp(EmptyObject, <<"ID">>, Prim("42"))}

NoFailure == [error |-> NoError, reported |-> <<>>]
Failure(thrown) == [error |-> thrown, reported |-> <<>>]

\* the mapping's query has a body or not (part_010 lines 312-320)
executeMapping(hasBody) ==
    IF hasBody THEN NoFailure
    ELSE [error |-> NoBodyError, reported |-> <<NoBodyError>>]

\* the try block of a call up to the await of line 321, and the catch
\* block if it threw before
Begin(op, input, failure, hasBody) ==
    LET thrown == IF failure.error # NoError THEN failure ELSE executeMapping(hasBody)
    IN IF thrown.error # NoError
       THEN /\ outcome' = Threw(thrown.error)
            /\ observed' = Report(thrown.reported \o <<thrown.error>>)
            /\ call' = [op |-> op, input |-> input, stage |-> "done", parsed |-> 0,
                        response |-> Rejected(Unset)]
            /\ UNCHANGED requests
       ELSE /\ requests' = Append(requests, op)
            /\ call' = [op |-> op, input |-> input, stage |-> "awaiting", parsed |-> 0,
                        response |-> Rejected(Unset)]
            /\ UNCHANGED <<observed, outcome>>

FilterFailure(resource, filter) ==
    LET result == mapFilter(resource, filter)
    IN IF result.error # NoError
       THEN [error |-> result.error, reported |-> result.reported]
       ELSE NoFailure

\* part_010 lines 155-163
Count ==
    /\ call.op = "none"
    /\ \E filter \in AdapterFilters, hasBody \in BOOLEAN :
            Begin("count", filter, FilterFailure(resources[cur], filter), hasBody)
    /\ UNCHANGED <<onError, decorated, paramVars, walkVars>>

\* lines 165-174
Find ==
    /\ call.op = "none"
    /\ \E filter \in AdapterFilters, hasBody \in BOOLEAN :
            Begin("find", filter, FilterFailure(resources[cur], filter), hasBody)
    /\ UNCHANGED <<onError, decorated, paramVars, walkVars>>

\* lines 176-187
FindOne ==
    /\ call.op = "none"
    /\ \E id \in RecordIDs, hasBody \in BOOLEAN :
            Begin("findOne", id, NoFailure, hasBody)
    /\ UNCHANGED <<onError, decorated, paramVars, walkVars>>

\* lines 266-271, 280-285: what is thrown before executeMapping
EditFailure(resource, hasBuilder, from) ==
    LET prepared == PreparedParams(resource, decorated, from)
    IN IF IsError(prepared) THEN Failure(prepared)
       ELSE IF ~hasBuilder THEN Failure(ForbiddenError)
       ELSE NoFailure

\* lines 264-276
Create ==
    /\ call.op = "none"
    /\ \E from \in AdapterParams, hasBody \in BOOLEAN :
            Begin("create", from,
                  EditFailure(resources[cur], resources[cur].create, from), hasBody)
    /\ UNCHANGED <<onError, decorated, paramVars, walkVars>>

\* lines 278-290
Update ==
    /\ call.op = "none"
    /\ \E from \in AdapterParams, hasBody \in BOOLEAN :
            Begin("update", from,
                  EditFailure(resources[cur], resources[cur].update, from), hasBody)
    /\ UNCHANGED <<onError, decorated, paramVars, walkVars>>

\* lines 292-302
Delete ==
    /\ call.op = "none"
    /\ \E id \in RecordIDs, hasBody \in BOOLEAN :
            Begin("delete", id,
                  IF resources[cur].delete THEN NoFailure ELSE Failure(ForbiddenError),
                  hasBody)
    /\ UNCHANGED <<onError, decorated, paramVars, walkVars>>

\* part_003 lines 340-347: connection.request called by the host itself
Request ==
    /\ call.op = "none"
    /\ requests' = Append(requests, "request")
    /\ call' = [op |-> "request", input |-> Undefined, stage |-> "awaiting",
                parsed |-> 0, response |-> Rejected(Unset)]
    /\ UNCHANGED <<onError, decorated, observed, outcome, paramVars, walkVars>>

\* part_003 lines 348-366 and part_010 lines 321-333 with the catch block
\* of the call: the transport answers the request awaited
Receive ==
    /\ call.stage = "awaiting"
    /\ \E response \in Responses \cup Rejections :
        LET got == request(response)
            invoked == got.error = NoError /\ call.op # "request"
            value == IF invoked THEN AfterRequest(resources[cur], call.op, got.value)
                     ELSE got.value
            thrown == IF got.error # NoError THEN got.error
                      ELSE IF IsError(value) THEN value ELSE NoError
            caught == IF call.op = "request" THEN <<>> ELSE <<thrown>>
        IN /\ call' = [call EXCEPT !.stage = "done",
                                   !.parsed = IF invoked THEN @ + 1 ELSE @,
                                   !.response = response]
           /\ outcome' = IF thrown # NoError THEN Threw(thrown) ELSE Returned(value)
           /\ observed' = IF thrown # NoError
                          THEN Report(got.reported \o caught) ELSE observed
    /\ UNCHANGED <<onError, decorated, requests, paramVars, walkVars>>

AdapterInit ==
    /\ \E subs \in BOOLEAN, create \in BOOLEAN, update \in BOOLEAN, delete \in BOOLEAN :
            Inflated(InflatedResource(subs, create, update, delete))
    /\ NoParams
    /\ onError \in BOOLEAN
    /\ decorated \in BOOLEAN
    /\ requests = <<>>
    /\ observed = <<>>
    /\ call = [op |-> "none", stage |-> "none"]
    /\ outcome = [status |-> "none"]

AdapterNext ==
    \/ Count
    \/ Find
    \/ FindOne
    \/ Create
    \/ Update
    \/ Delete
    \/ Request
    \/ Receive

AdapterSpec == AdapterInit /\ [][AdapterNext]_vars

(***************************************************************************)
(* GraphQLConnection.init: the schema is fetched, then the resources are   *)
(* walked one after the other                                              *)
(***************************************************************************)
InitDocuments ==
    {Document(<<<<Field("thing", <<Leaf("ID"), Leaf("name")>>)>>>>),
     Document(<<<<Field("thing", <<Leaf("name")>>)>>>>),
     Document(<<<<>>>>)}

InitResources ==
    {resource \in Resources :
        /\ resource.sortableFields = Unset
        /\ resource.referenceFields = Unset
        /\ resource.fieldTypes = Unset
        /\ ~resource.makeSubproperties
        /\ resource.findOne \in InitDocuments}

RECURSIVE ResourceLists(_)
ResourceLists(n) ==
    IF n = 0 THEN {<<>>}
    ELSE ResourceLists(n - 1) \cup
         {Append(list, resource) :
            list \in {l \in ResourceLists(n - 1) : Len(l) = n - 1},
            resource \in InitResources}

\* part_003 lines 81-83: fetchSchema sends the introspection query
FetchSchema ==
    /\ pc = "init"
    /\ requests' = Append(requests, "introspection")
    /\ call' = [call EXCEPT !.stage = "awaiting"]
    /\ pc' = "fetching"
    /\ UNCHANGED <<resources, cur, cursor, phase, path, objectStack, propertyMap, error,
                   onError, decorated, observed, outcome, paramVars>>

\* part_003 lines 77-78, 83-84: the introspection result arrives and
\* buildClientSchema makes the schema of it, or init fails
ReceiveSchema ==
    /\ pc = "fetching"
    /\ \E response \in Responses \cup Rejections :
        LET got == request(response)
            thrown == IF got.error # NoError THEN got.error
                      ELSE IF IsNullish(got.value) THEN TypeError ELSE NoError
        IN /\ call' = [call EXCEPT !.stage = "done"]
           /\ IF thrown # NoError
              THEN /\ Fail(thrown.v)
                   /\ outcome' = Threw(thrown)
                   /\ observed' = Report(got.reported)
              ELSE /\ pc' = IF Len(resources) = 0 THEN "done" ELSE "start"
                   /\ outcome' = Returned(Undefined)
                   /\ UNCHANGED <<observed, error>>
    /\ UNCHANGED <<resources, cur, cursor, phase, path, objectStack, propertyMap,
                   onError, decorated, requests, paramVars>>

\* part_003 lines 108-110 against src/AdminBroGraphQL.ts lines 66-76: where
\* the next resource begins, at its walk or at a schema fetch of its own
StageOfResourceFetching == "init"
StageOfResource == "start"

\* part_003 lines 108-110: map() goes on to the next resource
NextResource ==
    /\ pc = "done"
    /\ cur < Len(resources)
    /\ cur' = cur + 1
    /\ pc' = StageOfResource
    /\ UNCHANGED <<resources, cursor, phase, path, objectStack, propertyMap, error,
                   paramVars, adapterVars>>

InitInit ==
    /\ resources \in ResourceLists(MaxResources)
    /\ pc = "init"
    /\ cur = 1
    /\ cursor = <<>>
    /\ phase = "enter"
    /\ path = <<>>
    /\ objectStack = <<>>
    /\ propertyMap = NoProps
    /\ error = ""
    /\ NoParams
    /\ onError \in BOOLEAN
    /\ decorated = FALSE
    /\ requests = <<>>
    /\ observed = <<>>
    /\ call = [op |-> "init", stage |-> "none"]
    /\ outcome = [status |-> "none"]

InitNext ==
    \/ FetchSchema
    \/ ReceiveSchema
    \/ StartResource
    \/ FieldEnter
    \/ FieldLeave
    \/ FinishResource
    \/ NextResource

InitSpec == InitInit /\ [][InitNext]_vars

(***************************************************************************)
(* GraphQLResourceAdapter constructor                                      *)
(***************************************************************************)
UninitializedError == Thrown("Uninitialized resource")

\* part_010 lines 123-133: the error the constructor throws, NoError if it
\* makes the adapter
NewAdapter(rawResource) ==
    IF ~rawResource.connection.def THEN UninitializedError ELSE NoError

(***************************************************************************)
(* The unwrapping loop of the enter handler on the declared types a schema *)
(* can hold: a non-null wrapper never wraps a non-null wrapper             *)
(***************************************************************************)
RECURSIVE WrapperChains(_)
WrapperChains(n) ==
    IF n = 0 THEN {<<>>}
    ELSE WrapperChains(n - 1) \cup
         {wrapped \in {<<wrapper>> \o chain :
                            wrapper \in {"List", "NonNull"},
                            chain \in {c \in WrapperChains(n - 1) : Len(c) = n - 1}} :
            ~(Len(wrapped) > 1 /\ wrapped[1] = "NonNull" /\ wrapped[2] = "NonNull")}

DeclaredTypes == {Type(chain, name) : chain \in WrapperChains(MaxWrappers),
                                      name \in {"String", "Other"}}

UnwrapInit ==
    /\ Inflated(InflatedResource(FALSE, TRUE, TRUE, TRUE))
    /\ NoParams
    /\ onError = FALSE
    /\ decorated = FALSE
    /\ requests = <<>>
    /\ observed = <<>>
    /\ call \in {[op |-> "unwrap", type |-> type] : type \in DeclaredTypes}
    /\ outcome = [status |-> "none"]

\* part_003 lines 167-182
UnwrapType ==
    /\ call.op = "unwrap"
    /\ outcome.status = "none"
    /\ outcome' = Returned(Unwrap(call.type.wrappers, FALSE, FALSE))
    /\ UNCHANGED <<onError, decorated, requests, observed, call, paramVars, walkVars>>

UnwrapNext == UnwrapType
UnwrapSpec == UnwrapInit /\ [][UnwrapNext]_vars

(***************************************************************************)
(* Calls of the adapter in flight together. A call runs to its first await *)
(* (the transport request) in one step and goes on when its response       *)
(* arrives; what it keeps across the await are its own constants           *)
(* (fieldFilter, inflated, mapping). findMany is findOne called for each   *)
(* id, all in flight together.                                             *)
(***************************************************************************)
Callers == 1..MaxCalls
SampleFilter == <<FilterElement(<<"count">>, FromTo(Prim("5"), Prim("7")))>>
SampleParams == ParamsOf(<<<<"name">>, <<"count">>>>, <<Prim("abc"), Prim("5")>>)
InconvertibleParams == ParamsOf(<<<<"name">>, <<"count">>>>, <<Prim("abc"), Prim("abc")>>)
SampleID == Prim("42")
SampleResponses == {Body(Data(Num("2")), Unset),
                    Body(Data(SetProp(EmptyArray, <<"0">>, Record)), Unset),
                    Body(Null, Set(<<"boom">>))}

Idle == [op |-> "none", stage |-> "idle"]

\* part_010 lines 157-158, 178, 266-268, 280-282, 294: the mapping the
\* resource's builder makes of what the call hands it, and what the call
\* hands it or throws on the way
Mapping(op, variables) == [op |-> op, variables |-> variables]
BuilderInput(resource, op, input) ==
    IF op \in {"count", "find"}
    THEN LET result == mapFilter(resource, input)
         IN [variables |-> result.mapped, error |-> result.error,
             reported |-> result.reported]
    ELSE IF op \in {"create", "update"}
    THEN LET prepared == PreparedParams(resource, decorated, input)
         IN [variables |-> prepared, reported |-> <<>>,
             error |-> IF IsError(prepared) THEN prepared ELSE NoError]
    ELSE [variables |-> input, error |-> NoError, reported |-> <<>>]

\* the constants of a call are its own: a call that starts changes no
\* other call's
KeptByAdapter(calls, caller, started) ==
    [c \in DOMAIN calls |->
        IF c = caller THEN started
        ELSE IF calls[c].stage = "idle" THEN calls[c]
        ELSE [calls[c] EXCEPT !.mapping = started.mapping]]
KeptByCall(calls, caller, started) == [calls EXCEPT ![caller] = started]

\* a call up to the await of part_010 line 321 (part_003 line 346), or to
\* the error thrown before it
Start(caller, op, input) ==
    /\ call[caller].stage = "idle"
    /\ \E prepared \in {BuilderInput(resources[cur], op, input)} :
        LET mapping == Mapping(op, prepared.variables)
            started == [op |-> op, input |-> input, mapping |-> mapping,
                        stage |-> IF prepared.error # NoError THEN "done" ELSE "awaiting",
                        response |-> Rejected(Unset)]
        IN /\ call' = KeptByCall(call, caller, started)
           /\ IF prepared.error # NoError
              THEN /\ outcome' = [outcome EXCEPT ![caller] = Threw(prepared.error)]
                   /\ observed' = Report(prepared.reported \o <<prepared.error>>)
                   /\ UNCHANGED requests
              ELSE /\ requests' = Append(requests, [by |-> caller, mapping |-> mapping])
                   /\ UNCHANGED <<observed, outcome>>
    /\ UNCHANGED <<onError, decorated, paramVars, walkVars>>

\* part_010 lines 155-159
CallCount == \E caller \in Callers : Start(caller, "count", SampleFilter)
\* lines 165-169
CallFind == \E caller \in Callers : Start(caller, "find", SampleFilter)
\* lines 176-179 (and 189-194, findMany)
CallFindOne == \E caller \in Callers : Start(caller, "findOne", SampleID)
\* lines 264-272
CallCreate ==
    \E caller \in Callers, from \in {SampleParams, InconvertibleParams} :
        Start(caller, "create", from)
\* lines 278-286
CallUpdate == \E caller \in Callers : Start(caller, "update", SampleParams)
\* lines 292-298
CallDelete == \E caller \in Callers : Start(caller, "delete", SampleID)

\* part_010 lines 325-333: what the call makes of the parsed value, or of
\* the error thrown on the way to it
Parsed(value) ==
    IF IsError(value)
    THEN [returned |-> Threw(value), reported |-> <<value>>]
    ELSE [returned |-> Returned(value), reported |-> <<>>]

\* the outcome of a call whose mapping is mapping, on a response
OutcomeOn(resource, mapping, response) ==
    LET got == request(response)
    IN IF got.error # NoError
       THEN [returned |-> Threw(got.error), reported |-> got.reported \o <<got.error>>]
       ELSE Parsed(AfterRequest(resource, mapping.op, got.value))

\* part_003 lines 348-366, part_010 lines 323-333: the response to the
\* request of a call arrives and the call ends
Answer ==
    \E caller \in Callers, response \in SampleResponses :
        /\ call[caller].stage = "awaiting"
        /\ \E result \in {OutcomeOn(resources[cur], call[caller].mapping, response)} :
              /\ outcome' = [outcome EXCEPT ![caller] = result.returned]
              /\ observed' = Report(result.reported)
              /\ call' = [call EXCEPT ![caller].stage = "done",
                                      ![caller].response = response]
        /\ UNCHANGED <<onError, decorated, requests, paramVars, walkVars>>

ConcurrentInit ==
    /\ Inflated(InflatedResource(TRUE, TRUE, TRUE, TRUE))
    /\ NoParams
    /\ onError = TRUE
    /\ decorated = TRUE
    /\ requests = <<>>
    /\ observed = <<>>
    /\ call = [caller \in Callers |-> Idle]
    /\ outcome = [caller \in Callers |-> [status |-> "none"]]

ConcurrentNext ==
    \/ CallCount
    \/ CallFind
    \/ CallFindOne
    \/ CallCreate
    \/ CallUpdate
    \/ CallDelete
    \/ Answer

ConcurrentSpec == ConcurrentInit /\ [][ConcurrentNext]_vars

(***************************************************************************)
(* What the claims about the walk speak of                                 *)
(***************************************************************************)
\* every property of a list, its sub-properties at any depth included
RECURSIVE TreeProperties(_)
TreeProperties(list) ==
    UNION {{list[n]} \cup TreeProperties(list[n].subProperties) : n \in DOMAIN list}

\* a property as it was built, before any child list was attached
AsBuilt(prop) == [prop EXCEPT !.subProperties = <<>>]

\* the declared type of the field a property path names, from the type of the
\* operation's field down
RECURSIVE DeclaredType(_, _)
DeclaredType(typeName, fieldPath) ==
    LET type == TypeFields[typeName][Head(fieldPath)]
    IN IF Len(fieldPath) = 1 THEN type ELSE DeclaredType(type.name, Tail(fieldPath))

RootType == TypeFields["Query"][Operation[1].name].name
Walked == pc = "done"
PropertyList == resources[cur].properties.val

\* the field of the document a property path names
RECURSIVE FieldAt(_, _)
FieldAt(selections, fieldPath) ==
    LET n == CHOOSE n \in DOMAIN selections : selections[n].name = Head(fieldPath)
    IN IF Len(fieldPath) = 1 THEN selections[n]
       ELSE FieldAt(selections[n].sel, Tail(fieldPath))

\* the paths of the fields of an object type whose selection is exactly one
\* field of identifier type
SelectedByIDAlone ==
    {p \in DOMAIN propertyMap :
        LET named == DeclaredType(RootType, p).name
            field == FieldAt(Operation[1].sel, p)
        IN /\ IsObjectType(named)
           /\ Len(field.sel) = 1
           /\ HasField(named, field.sel[1].name)
           /\ typeIsID(TypeFields[named][field.sel[1].name])}

NonNullListOfNonNull == <<"NonNull", "List", "NonNull">>
NonNullLists ==
    {p \in DOMAIN propertyMap :
        /\ DeclaredType(RootType, p).wrappers = NonNullListOfNonNull
        /\ TypeKind[DeclaredType(RootType, p).name] = "SCALAR"}

(***************************************************************************)
(* C6 (as amended). A field declared a non-null list of a non-null scalar, *)
(* such as [String!]!, is walked into a property with isArray = true and   *)
(* isRequired = true: the outer non-null wrapper is unwrapped before the   *)
(* list wrapper and sets isRequired, the inner one does not.               *)
(***************************************************************************)
C6_NonNullListIsArrayAndRequired ==
    \A p \in NonNullLists :
        /\ propertyMap[p].isArray
        /\ propertyMap[p].isRequired
        /\ Walked => \E prop \in TreeProperties(PropertyList) :
                        AsBuilt(prop) = propertyMap[p] /\ prop.isArray /\ prop.isRequired

C6_Witness ==
    /\ Walked
    /\ <<"tags">> \in NonNullLists
    /\ \E n \in DOMAIN PropertyList :
            PropertyList[n].path = <<"tags">> /\ PropertyList[n].isArray

(***************************************************************************)
(* C6 as stated: a field declared a non-null list of a non-null scalar is  *)
(* walked into a property with isArray = true and isRequired = false.      *)
(***************************************************************************)
C6_NonNullListIsArrayNotRequired ==
    \A p \in NonNullLists :
        /\ propertyMap[p].isArray
        /\ ~propertyMap[p].isRequired

(***************************************************************************)
(* C7. The document selecting ID, name and tags of a Thing under one       *)
(* top-level field, on a resource that declares no reference field, gives  *)
(* exactly three properties in the order ID, name, tags: ID of string kind *)
(* and the identifier, name of string kind and required, tags of string    *)
(* kind, an array and required.                                            *)
(***************************************************************************)
ThingDocument ==
    Document(<<<<Field("thing", <<Leaf("ID"), Leaf("name"), Leaf("tags")>>)>>>>)

C7_ThingScenario ==
    /\ resources[cur].findOne = ThingDocument
    /\ ~resources[cur].referenceFields.def
    /\ pc # "start"

C7_ThingHasThreeProperties ==
    C7_ThingScenario =>
        /\ pc # "failed"
        /\ Walked =>
            /\ Len(PropertyList) = 3
            /\ PropertyList[1].path = <<"ID">>
            /\ PropertyList[1].type = "string"
            /\ PropertyList[1].isId
            /\ PropertyList[2].path = <<"name">>
            /\ PropertyList[2].type = "string"
            /\ PropertyList[2].isRequired
            /\ ~PropertyList[2].isId
            /\ PropertyList[3].path = <<"tags">>
            /\ PropertyList[3].type = "string"
            /\ PropertyList[3].isArray
            /\ PropertyList[3].isRequired
            /\ ~PropertyList[3].isId

C7_Witness == C7_ThingScenario /\ Walked /\ Len(PropertyList) = 3

C9_NoOpaqueChildlessProperty ==
    Walked => \A prop \in TreeProperties(PropertyList) :
                 prop.type # "mixed" \/ prop.subProperties # <<>>

(***************************************************************************)
(* C10. A resource whose document's operation selects a number of          *)
(* top-level fields other than one fails with the error that says so, and  *)
(* gets no property list.                                                  *)
(***************************************************************************)
C10_NotOneTopLevelField ==
    /\ Len(resources[cur].findOne.ops) > 0
    /\ Len(resources[cur].findOne.ops[1]) # 1

C10_TopLevelCountRejected ==
    (C10_NotOneTopLevelField /\ pc # "start") =>
        /\ pc = "failed"
        /\ error = "Top level selections must contain exactly one field"
        /\ ~resources[cur].properties.def

C10_Witness ==
    /\ pc = "failed"
    /\ Len(resources[cur].findOne.ops) > 0
    /\ Len(resources[cur].findOne.ops[1]) = 2

(***************************************************************************)
(* C11. A resource whose document holds a number of operations other than *)
(* one, none or two or more, fails to initialize with an error.            *)
(***************************************************************************)
C11_NotOneOperation == Len(resources[cur].findOne.ops) # 1

C11_OperationCountRejected ==
    (C11_NotOneOperation /\ pc # "start") => (pc = "failed" /\ error # "")

(***************************************************************************)
(* What the claims about mapFilter speak of                                *)
(***************************************************************************)
Mapped == call.op = "mapFilter" /\ outcome.status # "none"
NonEmptyBound(value) == IsString(value) /\ value.v # ""
BothNonEmpty(element) == NonEmptyBound(FromOf(element)) /\ NonEmptyBound(ToOf(element))

\* the entries the claim gives an element with two non-empty bounds: the
\* field, the operator and the bound the operand carries
ExpectedEntries(element) ==
    IF element.value.t = "s" \/ FromOf(element) = ToOf(element)
    THEN <<[field |-> element.path,
            is |-> IF element.property.type = "string" THEN "MATCH" ELSE "EQ",
            bound |-> FromOf(element)]>>
    ELSE <<[field |-> element.path, is |-> "GTE", bound |-> FromOf(element)],
           [field |-> element.path, is |-> "LTE", bound |-> ToOf(element)]>>

RECURSIVE ExpectedOf(_)
ExpectedOf(filter) ==
    IF filter = <<>> THEN <<>>
    ELSE ExpectedEntries(Head(filter)) \o ExpectedOf(Tail(filter))

\* a field filter is the entry expected: its operand is the bound, in the
\* representation of the field's type
IsEntry(fieldFilter, expected) ==
    /\ fieldFilter.field = expected.field
    /\ fieldFilter.is = expected.is
    /\ fieldFilter.to.t \in {"s", "n"}
    /\ fieldFilter.to.v = expected.bound.v

(***************************************************************************)
(* C12. For a filter whose elements all have two non-empty bounds,         *)
(* mapFilter, when it returns, returns in the order of the elements: one   *)
(* entry for a single value or equal bounds, MATCH for a field of string   *)
(* kind and EQ otherwise; two entries, GTE with the lower bound then LTE   *)
(* with the upper bound, for bounds that differ.                           *)
(***************************************************************************)
C12_MapsEqualityAndRange ==
    (/\ Mapped
     /\ outcome.status = "returned"
     /\ \A i \in DOMAIN call.filter : BothNonEmpty(call.filter[i]))
    => LET expected == ExpectedOf(call.filter)
       IN /\ Len(outcome.value) = Len(expected)
          /\ \A i \in DOMAIN expected : IsEntry(outcome.value[i], expected[i])

C12_Witness ==
    /\ Mapped
    /\ outcome.status = "returned"
    /\ Len(call.filter) = 2
    /\ call.filter[1].path = <<"count">>
    /\ call.filter[1].value = FromTo(Prim("5"), Prim("7"))
    /\ call.filter[2].path = <<"name">>
    /\ call.filter[2].value = Prim("abc")
    /\ Len(outcome.value) = 3
    /\ outcome.value[3].is = "MATCH"

(***************************************************************************)
(* C13. For a range on a numeric field whose lower bound is absent or      *)
(* empty and whose upper bound is present, mapFilter returns exactly one   *)
(* entry, LTE with the upper bound.                                        *)
(***************************************************************************)
C13_UpperBoundOnly ==
    /\ Len(call.filter) = 1
    /\ call.filter[1].path \in {<<"count">>, <<"price">>}
    /\ call.filter[1].value.t = "range"
    /\ call.filter[1].value.from \in {Undefined, Prim("")}
    /\ call.filter[1].value.to = Prim("7")

C13_OmitsAbsentLowerBound ==
    (Mapped /\ C13_UpperBoundOnly) =>
        /\ outcome.status = "returned"
        /\ Len(outcome.value) = 1
        /\ IsEntry(outcome.value[1],
                   [field |-> call.filter[1].path, is |-> "LTE", bound |-> Prim("7")])

(***************************************************************************)
(* C14. No field filter that mapFilter returns has an undefined or empty   *)
(* operand, whatever the bounds of the elements.                           *)
(***************************************************************************)
C14_NoEmptyOperand ==
    (Mapped /\ outcome.status = "returned") =>
        \A i \in DOMAIN outcome.value :
            /\ ~IsNullish(outcome.value[i].to)
            /\ outcome.value[i].to # Prim("")

(***************************************************************************)
(* C16. mapFilter throws whenever an operand cannot be converted to the    *)
(* type of the field: a string that is no number for Int or Float, a value *)
(* outside the enum's values for an enum.                                  *)
(***************************************************************************)
Convertible(value, typeName) ==
    CASE typeName = "Int" -> value.v \in IntegerTexts
      [] typeName = "Float" -> value.v \in FloatTexts
      [] IsEnumType(typeName) ->
            \E n \in DOMAIN EnumValues[typeName] : EnumValues[typeName][n] = value.v
      [] OTHER -> TRUE

HasInconvertibleOperand(element) ==
    LET typeName == FilterType(resources[cur], element.path)
    IN /\ typeName # ""
       /\ \E bound \in {FromOf(element), ToOf(element)} :
            NonEmptyBound(bound) /\ ~Convertible(bound, typeName)

C16_InconvertibleOperandThrows ==
    (Mapped /\ \E i \in DOMAIN call.filter : HasInconvertibleOperand(call.filter[i]))
        => outcome.status = "threw"


(***************************************************************************)
(* What the claims about the adapter's calls speak of                      *)
(***************************************************************************)
Resource == resources[cur]
Finished == call.stage = "done"
Failed == Finished /\ outcome.status = "threw"
FilterCall == call.op \in {"count", "find"} /\ call.stage # "none" /\ Len(call.input) = 1
Entry == call.input[1]
UnusableType(elementPath) ==
    \/ FilterType(Resource, elementPath) = ""
    \/ ~isInputType(FilterType(Resource, elementPath))
IsObjectPath(elementPath) ==
    /\ elementPath \in DOMAIN Resource.typeMap.val
    /\ IsObjectType(Resource.typeMap.val[elementPath])

\* C15: count and find on a filter entry whose path has no entry in the type
\* map, or whose type is no input type, throw the invalid-type error and no
\* request has been issued; an entry whose path has an object type is
\* treated as an ID: the call never throws the invalid-type error, and with
\* a string operand mapFilter throws nothing
C15_UnusableTypeFailsBeforeRequest ==
    FilterCall =>
        /\ UnusableType(Entry.path) =>
                /\ Finished
                /\ outcome = Threw(InvalidTypeError)
                /\ requests = <<>>
        /\ IsObjectPath(Entry.path) =>
                /\ FilterType(Resource, Entry.path) = "ID"
                /\ outcome.status = "threw" => outcome.error # InvalidTypeError
                /\ IsString(Entry.value) /\ outcome.status = "threw" /\ requests = <<>>
                        => outcome.error = NoBodyError

C15_Witness ==
    /\ FilterCall
    /\ call.op = "find"
    /\ Entry.path = <<"missing">>
    /\ Failed
    /\ onError /\ Len(observed) = 2

C15_WitnessReference ==
    /\ FilterCall
    /\ Entry.path = <<"owner">>
    /\ requests = <<"count">>

\* C17: create, update and delete on a resource without the builder of
\* that name end with the "Resource is not editable" error, whatever the
\* parameters, and with no request issued
C17_NoBuilderIsNotEditable ==
    /\ call.op = "create" /\ call.stage # "none" /\ ~Resource.create
            => outcome = Threw(ForbiddenError) /\ requests = <<>>
    /\ call.op = "update" /\ call.stage # "none" /\ ~Resource.update
            => outcome = Threw(ForbiddenError) /\ requests = <<>>
    /\ call.op = "delete" /\ call.stage # "none" /\ ~Resource.delete
            => outcome = Threw(ForbiddenError) /\ requests = <<>>

ErrorsInBody ==
    /\ Finished
    /\ call.response.kind = "body"
    /\ call.response.errors.def
    /\ call.response.errors.val # <<>>

C19_ErrorsFailTheRequest ==
    ErrorsInBody =>
        /\ outcome.status = "threw"
        /\ outcome.error = Thrown(formatGraphQLErrors(call.response.errors.val))
        /\ outcome.value = Undefined
        /\ call.parsed = 0

C19_Witness ==
    /\ ErrorsInBody
    /\ call.op = "count"
    /\ call.response.data = Data(Num("2"))
    /\ outcome.status = "threw"


(***************************************************************************)
(* What the claim about init speaks of                                     *)
(***************************************************************************)
Introspections == Len(SelectSeq(requests, LAMBDA r : r = "introspection"))
Walking == pc \in {"start", "visit", "visited"}
InitDone == pc = "done" /\ cur >= Len(resources)

\* C20: init sends the introspection request once, however many resources
\* there are: none before the fetch, one from then on, and by the time a
\* resource's walk starts, and when init is done, the response to that one
\* request has arrived
C20_OneIntrospectionBeforeAnyWalk ==
    /\ Introspections <= 1
    /\ pc = "init" => requests = <<>>
    /\ pc # "init" => requests = <<"introspection">>
    /\ Walking \/ InitDone => call.stage = "done" /\ outcome.status = "returned"

C20_Witness ==
    /\ Len(resources) = 2
    /\ cur = 2
    /\ pc = "visit"
    /\ requests = <<"introspection">>
    /\ call.stage = "done"


(***************************************************************************)
(* What the claims about a failed init speak of                            *)
(***************************************************************************)
InitFailed == pc = "failed" /\ cur <= Len(resources)
Untouched(resource) ==
    /\ ~resource.connection.def
    /\ ~resource.tag.def
    /\ ~resource.typeMap.def
    /\ ~resource.properties.def

\* C21: when init has failed at a resource (its document is rejected, a
\* field has no type, or the introspection fetch failed), that resource has
\* no connection, tag, type map or property list, and an adapter cannot be
\* constructed for it
C21_FailedResourceIsUninitialized ==
    InitFailed =>
        /\ Untouched(resources[cur])
        /\ NewAdapter(resources[cur]) = UninitializedError

\* the part of C21 the code keeps: a failed introspection fetch leaves every
\* resource untouched, and the resources after the one that failed too
C21_FailedFetchLeavesResourcesUntouched ==
    /\ pc = "failed" /\ call.stage = "done" /\ outcome.status = "threw" =>
            \A n \in DOMAIN resources :
                Untouched(resources[n]) /\ NewAdapter(resources[n]) = UninitializedError
    /\ InitFailed =>
            \A n \in DOMAIN resources : n > cur => Untouched(resources[n])


(***************************************************************************)
(* What the claims about the properties' attributes speak of               *)
(***************************************************************************)
Unwrapped == call.op = "unwrap" /\ outcome.status = "returned"
HasListWrapper(wrappers) == \E i \in DOMAIN wrappers : wrappers[i] = "List"
OutermostIsNonNull(wrappers) == wrappers # <<>> /\ wrappers[1] = "NonNull"

\* C23: for every declared type the loop leaves isArray true exactly when a
\* list wrapper occurs in the type and isRequired true exactly when the
\* outermost wrapper is the non-null wrapper; a non-null wrapper inside a
\* list changes nothing
C23_ArrayAndRequiredFollowTheWrappers ==
    Unwrapped =>
        /\ outcome.value.isArray = HasListWrapper(call.type.wrappers)
        /\ outcome.value.isRequired = OutermostIsNonNull(call.type.wrappers)

C23_Witness ==
    /\ Unwrapped
    /\ call.type.wrappers = <<"List", "NonNull", "List", "NonNull">>
    /\ outcome.value.isArray
    /\ ~outcome.value.isRequired


Built == DOMAIN propertyMap
Overridden(propertyPath) ==
    /\ resources[cur].fieldTypes.def
    /\ propertyPath \in DOMAIN resources[cur].fieldTypes.val

\* C24: a property built for a path the resource gives a kind for has that
\* kind, not the kind the name of its type maps to
C24_OverrideDecidesKind ==
    \A propertyPath \in Built :
        Overridden(propertyPath) =>
            propertyMap[propertyPath].type = resources[cur].fieldTypes.val[propertyPath]


\* the kind the name of a type maps to, as the specification lists it
KindOfName(name) ==
    IF name \in {"String", "ID"} THEN "string"
    ELSE IF name = "Float" THEN "float"
    ELSE IF name = "Int" THEN "number"
    ELSE IF name = "Bool" THEN "boolean"
    ELSE IF name = "Date" THEN "datetime"
    ELSE "mixed"

NamedTypeOf(propertyPath) == DeclaredType(RootType, propertyPath).name
IsReferenceField(propertyPath) ==
    /\ resources[cur].referenceFields.def
    /\ propertyPath \in DOMAIN resources[cur].referenceFields.val
HasEnumValues(propertyPath) ==
    /\ IsEnumType(NamedTypeOf(propertyPath))
    /\ Len(EnumValues[NamedTypeOf(propertyPath)]) > 0

\* a path declared a reference field is of reference kind, else an enum
\* with values is of string kind, else the name of the type decides
KindByPrecedence(propertyPath) ==
    IF IsReferenceField(propertyPath) THEN "reference"
    ELSE IF HasEnumValues(propertyPath) THEN "string"
    ELSE KindOfName(NamedTypeOf(propertyPath))

ListsEnumValues(propertyPath) ==
    HasEnumValues(propertyPath) =>
        propertyMap[propertyPath].enumValues = Set(EnumValues[NamedTypeOf(propertyPath)])

\* C25 as stated: every property built has the kind the precedence gives
\* (reference field, enum with values, name of the type), and a property of
\* an enum type lists the enum's values
C25_KindByPrecedence ==
    \A propertyPath \in Built :
        /\ propertyMap[propertyPath].type = KindByPrecedence(propertyPath)
        /\ ListsEnumValues(propertyPath)

\* C25: the same, but for a field of an object type selected by its
\* identifier alone, which is of reference kind whatever the precedence
\* gives
C25_KindByPrecedenceUnlessInferred ==
    \A propertyPath \in Built :
        /\ propertyMap[propertyPath].type =
                IF propertyPath \in SelectedByIDAlone THEN "reference"
                ELSE KindByPrecedence(propertyPath)
        /\ ListsEnumValues(propertyPath)

C25_Witness ==
    /\ Walked
    /\ <<"meta", "kind">> \in Built
    /\ IsReferenceField(<<"meta", "kind">>)
    /\ propertyMap[<<"meta", "kind">>].type = "reference"
    /\ <<"meta", "owner">> \in Built

C25_WitnessScalars ==
    /\ Walked
    /\ <<"stats", "count">> \in Built
    /\ propertyMap[<<"stats", "count">>].type = "number"
    /\ propertyMap[<<"stats", "price">>].type = "float"
    /\ propertyMap[<<"stats", "flag">>].type = "boolean"
    /\ propertyMap[<<"stats", "since">>].type = "datetime"
    /\ propertyMap[<<"stats", "real">>].type = "mixed"


Listed(propertyPath) ==
    \E n \in DOMAIN resources[cur].sortableFields.val :
        resources[cur].sortableFields.val[n] = propertyPath

\* C26: a property is sortable exactly when the resource gives a list of
\* sortable fields and the property's full path is in it, or the resource
\* gives no list and the property is not of reference kind
C26_SortableByListOrKind ==
    \A propertyPath \in Built :
        propertyMap[propertyPath].isSortable =
            IF resources[cur].sortableFields.def THEN Listed(propertyPath)
            ELSE propertyMap[propertyPath].type # "reference"

C26_Witness ==
    /\ Walked
    /\ resources[cur].sortableFields.def
    /\ <<"meta", "owner">> \in Built
    /\ propertyMap[<<"meta", "owner">>].type = "reference"
    /\ propertyMap[<<"meta", "owner">>].isSortable
    /\ <<"meta">> \in Built
    /\ ~propertyMap[<<"meta">>].isSortable

C26_WitnessNoList ==
    /\ Walked
    /\ ~resources[cur].sortableFields.def
    /\ <<"owner">> \in Built
    /\ propertyMap[<<"owner">>].type = "reference"
    /\ ~propertyMap[<<"owner">>].isSortable
    /\ <<"name">> \in Built
    /\ propertyMap[<<"name">>].isSortable


\* the full paths of the fields of a selection set, sub-selections included
RECURSIVE FieldPaths(_, _)
FieldPaths(selections, prefix) ==
    UNION {{Append(prefix, selections[n].name)}
                \cup FieldPaths(selections[n].sel, Append(prefix, selections[n].name)) :
           n \in DOMAIN selections}

VisitedPaths == FieldPaths(Operation[1].sel, <<>>)
TypeMapOfResource == resources[cur].typeMap.val
InRootList(propertyPath) ==
    \E n \in DOMAIN PropertyList : PropertyList[n].path = propertyPath

\* C27: after a walk that succeeded the type map has, under the full path
\* of every field below the operation's field, the named type of that
\* field, whatever became of the property; and every path of the root
\* property list of a resource that does not keep sub-property trees is a
\* key of the type map
C27_TypeMapHoldsEveryVisitedField ==
    Walked =>
        /\ \A fieldPath \in VisitedPaths :
                /\ fieldPath \in DOMAIN TypeMapOfResource
                /\ TypeMapOfResource[fieldPath] = NamedTypeOf(fieldPath)
        /\ ~resources[cur].makeSubproperties =>
                \A n \in DOMAIN PropertyList :
                    PropertyList[n].path \in DOMAIN TypeMapOfResource

C27_Witness ==
    /\ Walked
    /\ ~resources[cur].makeSubproperties
    /\ VisitedPaths = {<<"blob">>, <<"owner">>, <<"owner", "ID">>}
    /\ TypeMapOfResource[<<"blob">>] = "JSON"
    /\ TypeMapOfResource[<<"owner", "ID">>] = "ID"
    /\ ~InRootList(<<"blob">>)
    /\ ~InRootList(<<"owner", "ID">>)
    /\ InRootList(<<"owner">>)


(***************************************************************************)
(* What the claim about the walk's path and stack speaks of                *)
(***************************************************************************)
\* the fields entered and not yet left: those above the cursor, and the
\* field at the cursor when its leave handler is about to run; the
\* operation's field is none of them
LeavingParent == phase = "leave" /\ CurrentField.hasSel /\ Len(cursor) > 1
OpenDepth == IF phase = "leave" /\ CurrentField.hasSel THEN Len(cursor) ELSE Len(cursor) - 1
OpenNames ==
    [k \in 1..(OpenDepth - 1) |-> NodeAt(Operation, SubSeq(cursor, 1, k + 1)).name]
JustPushed == phase = "enter" /\ Len(cursor) > 2 /\ Last(cursor) = 1

\* C28: while the walk runs the path names the fields entered and not yet
\* left and the stack holds one list more than the path has segments; the
\* list pushed at the enter of a field is empty; when the leave handler of
\* a field with a selection runs, the last property of the list below the
\* top is the property built for that field; when the walk has ended the
\* path is empty and the root list alone is on the stack
C28_PathAndStackFollowTheFields ==
    /\ pc = "visit" =>
            /\ path = OpenNames
            /\ Len(objectStack) = Len(path) + 1
            /\ JustPushed => Last(objectStack) = <<>>
            /\ LeavingParent =>
                    /\ objectStack[Len(objectStack) - 1] # <<>>
                    /\ Last(objectStack[Len(objectStack) - 1]) = propertyMap[path]
    /\ pc = "visited" => path = <<>> /\ Len(objectStack) = 1

C28_Witness ==
    /\ pc = "visit"
    /\ LeavingParent
    /\ path = <<"others", "owner">>
    /\ Len(objectStack) = 3
    /\ Len(objectStack[3]) = 2
    /\ Last(objectStack[2]) = propertyMap[path]


(***************************************************************************)
(* What the claim about calls in flight together speaks of                 *)
(***************************************************************************)
Started == {caller \in Callers : call[caller].stage # "idle"}
OwnMapping(caller) ==
    Mapping(call[caller].op,
            BuilderInput(resources[cur], call[caller].op, call[caller].input).variables)
RequestsBy(caller) ==
    {i \in 1..Len(requests) : requests[i].by = caller}

CallsKeepToThemselves ==
    \A caller \in Started : \A own \in {OwnMapping(caller)} :
        /\ call[caller].mapping = own
        /\ \A i \in RequestsBy(caller) : requests[i].mapping = own
        /\ (call[caller].stage = "done" /\ RequestsBy(caller) # {}) =>
                outcome[caller] =
                    OutcomeOn(resources[cur], own, call[caller].response).returned

\* the resources are the ones the adapter was made for, property tree and
\* type map as inflateResources left them
ResourcesAsInflated ==
    /\ Len(resources) = 1
    /\ resources[cur] = InflatedResource(TRUE, TRUE, TRUE, TRUE)

\* C22: whatever calls of count, find, findOne (findMany), create, update
\* and delete are made, one after another or in flight together, the
\* property tree and the TypeMap of the resource stay what they were when
\* the adapter was made, and every call
\* sends and parses with the mapping built from its own input.
C22_CallsLeaveResourcesAndEachOtherAlone ==
    /\ CallsKeepToThemselves
    /\ ResourcesAsInflated

C22_Witness ==
    /\ Len(requests) = 2
    /\ requests[1].by = 1
    /\ call[1].op = "find" /\ call[1].stage = "awaiting"
    /\ call[2].op = "count" /\ call[2].stage = "done"
    /\ outcome[2].status = "returned"


\* C29: when a call of count, find, findOne, create, update or delete has
\* failed, whatever made it fail, an observer that is there has been called
\* exactly once
AdapterCall ==
    call.op \in {"count", "find", "findOne", "create", "update", "delete"}
C29_ObserverCalledOncePerFailure ==
    (Failed /\ AdapterCall /\ onError) => Len(observed) = 1


(***************************************************************************)
(* What the claim about required values speaks of                          *)
(***************************************************************************)
EditCall == call.op \in {"create", "update"} /\ call.stage # "none"
\* the properties validateParams asks a value for
AskedFor ==
    {n \in DOMAIN Resource.properties.val :
        LET property == Resource.properties.val[n]
        IN property.isRequired /\ ~(property.isId /\ property.type # "reference")}
ValueGiven(n) == ~MissingValue(GetProp(call.input, Resource.properties.val[n].path))
\* the call's record is converted and inflated without an error
ReachesValidation ==
    /\ ~IsError(convertParams(Resource, call.input))
    /\ ~IsError(inflateParams(convertParams(Resource, call.input)))
HasDottedPath(n) == Len(Resource.properties.val[n].path) > 1

\* C30: on a decorated resource, create and update with a flat record that
\* holds a non-empty value under the path of every required property that
\* is no identifier never fail with the required-field error, dotted paths
\* included; they fail with it, and no request has been sent, when the
\* value of such a property is empty, null or missing
C30_RequiredValuesAreFoundUnderTheirPath ==
    (EditCall /\ decorated /\ ReachesValidation) =>
        /\ (\A n \in AskedFor : ValueGiven(n)) => outcome # Threw(RequiredFieldError)
        /\ (\E n \in AskedFor : ~ValueGiven(n))
                => outcome = Threw(RequiredFieldError) /\ requests = <<>>

\* the same where no required property has a dotted path
C30_RequiredValuesOfUndottedPaths ==
    (EditCall /\ decorated /\ \A n \in AskedFor : ~HasDottedPath(n)) =>
        C30_RequiredValuesAreFoundUnderTheirPath

====
